# A TLA+ model of NanoLDAP

NanoLDAP is one Go process: an LDAP/LDAPS server that reads a directory of
users and groups, an HTTPS administration UI that changes it, a SQLite store
behind both, and in-memory sessions and rate limiters. This directory holds
TLA+ modules of its core, TLC configurations that check them on small
instances, and TLAPS proofs of what matters most for every instance.

    tlc -config MCSessions.cfg MCSessions     # any run below
    tlapm SessionsProofs.tla                  # any *Proofs module

`PROJECT.json` lists runs, properties, theorems, hazards and findings, and
maps every definition to the lines of source it stands for.

## 1. The system

| Component | State | Operations | Makes it correct |
| --- | --- | --- | --- |
| session store, `internal/session` | map token -> user, expiry; one mutex | Create, Get, Delete, RevokeUser, cleanup inside Create and Get | never more than 3; ended stays ended; used is kept; expired holds no slot |
| user store, `internal/store` | tables users, groups, user_groups, settings; pool of one connection | CRUD, lookups, listings, seeding, base DN | names and ids identify; no membership of what is gone; a change is whole or not at all |
| web administration, `internal/web` | none of its own: concurrent requests over the two stores and the settings | login, logout, authentication of every request, user and group handlers, base DN | a change of an account ends the sessions opened before it |
| LDAP server, `internal/ldapserver` | connection tokens; per connection: bound, anonymous, user with groups | accept, bind, search, refuse the rest, idle timeout | tokens counted; one identity per connection; verdicts and answers are the directory's; roles bound what is revealed |
| bind limiter | map address -> times of attempts; next sweep; one mutex | Allow, sweep | at most 3 per 10 s and address; refusals deserved; silent addresses forgotten |
| search limiter | window start, count; one goroutine | Allow | bursts bounded; refusals deserved |
| settings, `internal/directory` | base DN; one lock | BaseDN, SetBaseDN | in memory = in the table |
| startup, `internal/app`, `tlsutil` | two files; the database | EnsurePair, SeedDefaults, EnsureBaseDN, serve, stop | a start that was cut short leaves something a later start can use, but for named cases |
| process, `cmd/nanoldap` | listeners, accept loops, error channel, store handle, signal handler | run, shutdownAll, the deferred closes | ends when it should, whatever clients do; store closed last; exit status tells why |
| DNs, entries, filters, `ldapserver/server.go`, `filter.go` | none | bind name of a DN, scope, match, attribute selection, base DN | a DN reaches its account; a search picks what tree and memberships say |
| BER codec, `ldapserver/ber.go` | none | lengths, integers | what is written is read back |
| debug trace, audit log, password hashing, configuration, log filter, assets | none that decides anything above | output, pure functions | - |

**Interaction.** Every HTTP request and every LDAP connection is a goroutine.
They share the store (statements and transactions exclude each other: the
pool has one connection), the sessions, the settings and the bind limiter (a
lock each). No lock spans two calls, so other goroutines run between any two.
HTTP handlers pass the request's context to the store, and a client that
disconnects makes every later statement fail while calls of the session store
go on working. LDAP handlers use the background context. There are no
callbacks and no background goroutines: expiry, cleanup and sweeps happen
inside other calls.

**What is hard.** Checks on an account that has changed by the time they are
used (login, bind, search); revocation against login; several statements that
are not one transaction (lookups, listings, seeding, storing and applying the
base DN); clients that vanish between a commit and what should follow it;
time read twice in one operation; the end points of timeouts and windows; a
setting that belongs to a connection of a pool; starts cut short. The list
with line numbers is under `hazards`.

## 2. The modules

Detailed components on the left implement the abstract ones in the middle,
and the compositions on the right run on those:

    Sessions    --implements-->  SessionTable  --used by-->  WebAdmin
    Store       --implements-->  Directory     --used by-->  WebAdmin, LdapServer
    BindLimiter --implements-->  Quota         --used by-->  LdapServer
    SearchRate  --implements-->  Quota         --used by-->  LdapServer
    Names, Codec  --extended by-->  Entries, Answers  (texts of binds and searches)
    Lifecycle   (startup, seeding, certificate pair, base DN)
    Shutdown    (listeners, signals, the end of the process)

The four implementations are checked by TLC and proved. So an HTTP request or
an LDAP connection can be modelled with a session call, a statement or a
limiter decision as one abstract step without losing behaviour of the code
below it.

**SessionTable** promises: a bounded table from fresh tokens to user names.

**Sessions** is `session/store.go`. `sessions` is the map (an absent key is
`NoSession`), `now` the clock; one action per method, as each holds the mutex.
`Create` and `Get` read the clock twice, so the clock may advance inside them.
Tokens are model values drawn at most once (32 random bytes).

**Directory** promises: accounts, groups and memberships changed by whole
transactions, ids never given out twice.

**Store** is the writing half of `store/store.go`. `users`, `groups`,
`userGroups` are the tables; `lastUid`, `lastGid` the AUTOINCREMENT counters;
`fkOn` the foreign-key pragma of the connection in the pool, which
`ReplaceConnection` loses and `Migrate`, at a restart, sets again. Statements
that fail leave everything unchanged and are steps the model need not take.
The refinement maps `members` to what the joins can see, because
`userGroups` itself may hold rows of deleted accounts.

**WebAdmin** is `web/server.go`. `req[r]` is where a request is and what it
has read; the actions follow each handler statement by statement:
`LoginRow`, `LoginGroups`, `LoginCreate`; `AuthSession`, `AuthRow`,
`AuthGroups`; commit, read back, revoke for an update; read, revoke, delete
for a deletion; and one `RevokeUser` after the other for a group. `Cancel` is
the client disconnecting. `version` and `login` are history: how often an
account has changed, and which version of it a session was opened with.

**Quota** promises: an attempt passes while fewer than `Limit` of its key are
recent. **BindLimiter** and **SearchRate** are `windowLimiter` and
`rateCounter`. Each call of `Allow` is one action (a mutex, or a single
goroutine). `granted` is history: what was let through, and when.

**LdapServer** is the serving part of `ldapserver/server.go`. `conn[c]` is a
connection and its goroutine; a bind is `BindRow` and `BindGroups`, a search
`ListUsers`, `UserGroups` once per row, `ListGroups`, `GroupMembers` once per
row. `ChangeUser` and `ChangeGroup` are commits of the administration UI.
A search asks for the whole tree; narrower bases, scopes and filters select
from that answer, and which they select is the subject of Answers.

**Names** is DNs as the code has them: text split at commas, a part being the
words around its first `=`, and nothing escaped. `Lower` and `Trim` are
functions on words given by the instance; `NormalizeDN`, `DnWithinScope`,
`UsernameFromDN`, `NormalizeComparableDN` and `NormalizeBaseDN` are defined on
sequences of parts. Of a name the model assumes that it is not empty and has
no `=` before its first comma (`Name`), of the two functions on words what
`strings.ToLower` and `strings.TrimSpace` guarantee: each done twice changes
nothing more, their order does not matter, and the words the program itself
writes into DNs stay as they are. **Entries** builds the directory's entries
from these (root DSE, base, containers, accounts, groups, with their legacy
aliases) and defines `Parses`, `Match` and `SelectedAttributes`; `parseFilter`
and `Match` are recursive functions over a set of filters closed under
arguments, each deeper than its arguments (`Depth`: a filter is a finite
tree). **Codec** is length prefixes and integers of `ber.go` octet by octet;
the contents of an element count by their size, and `Word` is what a Go `int`
of `WordOctets` octets counts to.

**Answers** puts these behind one connection: a bind or a search is one step,
between which administrators change the base DN and the directory. It
complements LdapServer, where a search is many statements but its text does
not matter. References are defined next to the properties: `InTree` is the
tree the documents describe, `Meant` the memberships as stored, `Reaches` the
two DNs of an account, `ValueOf` an integer read without a width. A directory
that is stored has finitely many accounts and groups, and a message id has at
least one octet, as `packet.int` refuses an empty integer.

**Shutdown** is `cmd/nanoldap/main.go` after `app.New`. `pc` is where `run`
is; `todo` and `shutdowns` are the listeners to start and the functions to
call; `loop[l]` is the goroutine that accepts on `l`, `open` the sockets,
`errCh` the number of errors in the channel, `busy[l]` the HTTP requests or
LDAP connections being served. An HTTP listener's `Drain` waits for its
requests or the deadline; an LDAP one's does not wait. Lifecycle's `Stop`
abstracts all of this to the one thing that matters after a restart.

**Lifecycle** is what persists: files `cert` and `key` (absent, emptied, or
of the pair made by some start), the seeded names, the `base_dn` row. `Stop`
may come at any point. `upd[r]` is a request updating the base DN: normalise,
store, apply.

Operators whose comment begins with *Fault* are wrong versions of the operator
after them. They are used by no specification; each is the change under which
one of the properties fails, listed under `mutants`.

## 3. What is checked

| Run | Bounds | Distinct states | Shows |
| --- | --- | --- | --- |
| sessions | 3 tokens, 2 names, limit 2, timeout 2, clock to 6 | 8,320 | `AtMostMaxSessions`, `EndedStaysEnded`, `RefusedOnlyWhenFull`, `CleanupSparesValid`, `ImplementsTable` |
| store | 3 ids of each kind, 2 usernames, 2 group names equal up to case, forms of 2 group names | 64,696 | `KeysIdentify`, `NoDanglingRows`, `ImplementsDirectory` |
| web_admin | 2 requests, 2 tokens, 3 accounts, 2 groups, 2 changes, 1 disconnect | 5.3 million | `StaleSessionsExplained`, `SessionEndsForCause` |
| web_admin_live | the same, 1 change, no disconnect | 0.6 million | `StaleSessionsEnd` |
| bind_limiter | 2 addresses, limit 2, window 2, clock to 7, 8 calls | 2.8 million | `WindowBound`, `RefusedOnlyAtLimit`, `BucketsReclaimed`, `ImplementsQuota` |
| search_rate | limit 2, second of 3 ticks, clock to 10, 10 calls | 128,757 | `BurstBound`, `RefusedOnlyAtLimit`, `ImplementsQuota` |
| ldap_directory | 1 connection, 2 changes, 3 ids of each kind, accounts alice, bob and Bob, 2 group names | 0.9 million | `BindVerdictRight`, `RevealedWithinRole`, `AnswerIsTheDirectory` |
| ldap_connections | 3 connections, 2 tokens, 2 addresses, no changes | 290,408 | `TokensCounted`, `OneIdentity`, `SlotsComeBack` |
| answers | 4 directories, 2 base DNs in force, 4 typed, 27 bind DNs and 221 searches | 16,200 | `ScopeAgreesWithTree`, `MembershipSearchesAgree`, `BindNamesTheAccount`, `AnswerReadsBack` |
| lifecycle | 3 starts, 2 groups, 2 accounts, 2 base DNs and a bad one, 2 updates at a time | 217,816 | `AppliedIsPersisted`, `PairKept`, `FailuresExplained`, `ProvisionedUnlessCut`, `FlagOnlySeeds` |
| shutdown | the 16 choices of 4 listeners, 1 request or connection each at a time | 236,608 | `StoreClosedLast`, `StatusTells`, `ShutsDown` |
| web_login_race | as web_admin_live | violated | `LoggedOutOnChange` |

**Why the bounds are enough.** Two slots, tokens or attempts let a limit be
hit, passed by one and freed again; a third contender needs it. Two requests
suffice for every race of a handler with a login, with an authentication or
with another handler; two changes for delete-and-create-again. Clocks run
for at least three windows or timeouts, so that state from before a window,
from within it and from after it meets. The LDAP model is split in two: what
one connection sees of a changing directory, and what connections do to each
other; connections share nothing but the tokens and the bind limiter.
In `answers` the instance matters more than its size: the directories hold
names that differ in case, a name with a comma, one that ends in a
container (`bob,ou=people`), display names of 127, 128, 255, 256, 65,535, 65,536 and 70,000 octets; the searches are every base in
every scope with one filter, every filter with one base, every attribute list,
and message ids around each width, with a Go `int` of three octets instead of
eight. In `shutdown` one request per listener is enough, because all that is
asked of them is whether there is any.
Symmetry (requests, tokens) is used in `web_admin` only, which checks
invariants only. Deadlock is not checked where the clock, the calls, the
starts or the changes are bounded and a run therefore ends.

**Fairness.** `WebAdmin!FairSpec` has weak fairness on the steps of each
accepted request: net/http runs a handler to its end, and every store
statement returns. Clients need not send, continue or cancel anything, and
sessions need not expire. `LdapServer!FairSpec` has weak fairness on what
each connection's goroutine does by itself, its deadline included: the Go
scheduler runs it and the deadline set before every read passes. That is why
`SlotsComeBack` has its second disjunct: a client that goes on sending
requests keeps its slot, as the code intends. `Shutdown!FairSpec` has weak fairness on
the steps of `run`, on the accepting goroutines once their listener is closed
or has failed, and on the five seconds running out. No signal, failure, client
or end of a request is assumed, so `ShutsDown` holds with clients that never
finish.

**How a few properties are to be read.** `StaleSessionsExplained` says what
revocation really achieves: a live session older than the last change of its
account comes from a login that overlapped the change or its revocation, from
a handler cut short by its client between commit and revocation, or it is
about to be revoked. `RevealedWithinRole` exempts connections whose account
changed after the bind read it: the groups found by the bind are used for as
long as the connection lives. `AnswerIsTheDirectory` and `BindVerdictRight`
exempt requests during which the directory changed; the former also binds as
names with capitals, which are looked up under another spelling
(`BindNamesTheAccount` says what they reach). `SessionEndsForCause` allows a
session to end through its own logout, its timeout, a change of its account
begun before, or a failed look-up of its own user, which ends the sessions of
that user on every device. `ScopeAgreesWithTree` has two exceptions, the
base that is empty or blank and directories with a comma in a name.
`BindNamesTheAccount` leaves out the short DN of a name that ends in
`,ou=people`, which is the legacy DN of another name and reaches that.
`MembershipSearchesAgree` leaves out names with a container in them, and DNs
with a container anywhere but right above the base, or with the other kind's:
`normalizeComparableDN` drops a container wherever it stands. `StoreClosedLast` exempts starts whose listener could
not be opened. `BurstBound` is what
consecutive windows can promise. `AppliedIsPersisted` exempts an update that
was stored between another's storing and applying.

## 4. Where the code differs from its documents

One run expects a violation; the finding quotes code and document.

- *web_login_race*: a login that checked the account before a change gets its
  session after the change's revocation (`web/server.go:127`, `143`).

The other differences are written into the passing properties as exceptions,
or visible in a model without a run:

| Where | What |
| --- | --- |
| `BindNamesTheAccount` | bind DNs are lower-cased, usernames are not: an account with capitals cannot bind, and its DN binds as the account with the lower-case name (`ldapserver/server.go:660`) |
| `ProvisionedUnlessCut`, `FailuresExplained` | a first start cut short among the accounts is never completed; one cut short among the groups, or while the key is written, makes later starts fail (`store/store.go:115`, `tlsutil/cert.go:70`; README.md:11) |
| `RevealedWithinRole` | a demoted account's open connection keeps full search (README.md:82) |
| `BurstBound` | 50 searches per second is a bound per window, 99 per second (README.md:71) |
| `AppliedIsPersisted` | two base DN updates may be stored in one order and applied in the other (README.md:94) |
| `AnswerReadsBack` | an element of 65,536 octets or more gets a wrong length (`ber.go:177`) |
| `ScopeAgreesWithTree` | one level below the empty base finds a base DN of one component, its subtree finds nothing; a name with a comma is missed at one level |
| `MembershipSearchesAgree` | DNs with the other kind's container, or with a container at another level, match membership filters (`filter.go:98`) |
| Entries | `(memberOf=*)` matches accounts without groups: the attribute is there without values |
| Answers | a bound client never gets the root DSE; an anonymous one gets it for a subtree search too; aliases are found in every scope |
| `StoreClosedLast` | LDAP connections outlive the store at shutdown: binds end as invalid credentials, searches as busy; a listener that cannot start skips the orderly shutdown |
| Shutdown | one failed Accept of an LDAP listener ends the process; after a failure, a signal kills it on the spot (`status = "killed"`) |
| LdapServer | bind attempts that are malformed, or follow a successful bind, are not audited (results `bad_bind`, `bound_already`; the plan's line 43) |

## 5. What is proved

For every value of the constants, from the assumptions named in the modules
(limits and windows are naturals, positive where the code's constant is, marker
values are not names, and the directory that WebAdmin and LdapServer start with
obeys the schema's keys):

| Module | Theorems | Argument |
| --- | --- | --- |
| SessionsProofs | `TypeCorrect`, `LimitHolds`, `EndedForGood`, `NoSlotHeldByExpired`, `ValidSurvives`, `Refinement` | `AtMostMaxSessions` counts a set that cleanup shrinks and `Create` extends by one below the limit; the strengthening `Bounded` adds that the set is finite, so that its size is a number. `Drawn`, that tokens in the map have been issued, is what `ValidSurvives` needs: the token `Create` draws overwrites no session. `EndedForGood` needs only that the draw is fresh |
| StoreProofs | `TypeCorrect`, `KeysAlwaysIdentify`, `CascadesLeaveNothing`, `Refinement` | `IInv`: ids in use are at most the counters, rows of `userGroups` too, names and ids identify. So a new id meets no old row, and the joins change exactly as the ideal memberships do, with or without cascades |
| BindLimiterProofs | `TypeCorrect`, `RateLimited`, `RefusalsJustified`, `AddressesForgotten`, `Refinement` | `History`: a bucket holds exactly the granted attempts of its key, as far as they are recent; then a window that ends now is what `Full` counts, and older windows no longer change. For reclaiming: every time in the map was within a window of the last sweep |
| AnswersProofs | `CounterTyped`, `BurstsBounded`, `SearchRefusalsJustified`, `CounterIsQuota` | about module SearchRate: grants lie in windows a second apart; those of the current window are counted by `count`; any second meets at most two windows, and the first search of the later one closes the earlier, which leaves at most `Limit` and `Limit - 1` |
| LdapServerProofs | `TokensAreCounted`, `IdentityLasts` | `Inv`: the tokens taken are the cardinality of the connections that are not `none`, and a bound connection has had its one successful bind. Each handler step is shown to be a `Move`: it changes one connection, keeps it served, and keeps its identity once bound; only `Accept` and `Release` change who is served, by one |
| LdapServerProofs | `VerdictIsRight`, `RolesBound`, `AnswersAreComplete` | `Informed`: names and ids identify accounts (so a row is the account), and for every connection that is not stale or moved, the row, the roles and what its listings have gathered so far are the directory's. Every change of the directory `Spares` the accounts it is not counted as affecting; a handler step extends what is gathered by one row (`OneMore`), and all rows make `Memberships` |
| LifecycleProofs | `TypeCorrect`, `PairLasts`, `AppliedPersists`, `FailuresHaveCause`, `Provisioned`, `FlagSeedsOnly` | `Inv` says what a crash can leave: a key without a matching certificate only if a start was cut short in writing it, so a pair once served is complete and never written over; accounts that are none, all, or exactly those before `step`, unless a start was cut short there; updates applied only what is stored, unless a save came between |
| ShutdownProofs | `TypeCorrect`, `ClosedLast`, `StatusIsTold`, `RoomForEveryError` | listeners still to start, still to shut down and already shut down partition the configuration; errors in the channel are at most the loops that reported one, hence fewer than its capacity while a started loop has still to report; what `Drain` has left quiet stays quiet |
| AnswersProofs | `BindsReachTheirAccount`, `SearchesStayInTheirScope`, `MembershipsAgree`, `AnswersReadBack` | about module Answers, see below |
| AnswersProofs | `LengthsReadBack`, `LengthsBounded` | about module Codec; no behaviour, arithmetic: the three forms of a length, case by case |
| WebAdminProofs | `TypeCorrect`, `EndsForCause` | each step closes the sessions of one token or one name, and the request at that step holds the reason; a token in the table has been issued, so a login overwrites none |
| WebAdminProofs | `ChangesEndSessions` | `Revocable`: sessions and logins in flight are *claims* on an account (id, name, version read, excused or not), and a claim is `Honest`: its id was given out to nobody of another name, and unless it is excused its account is there, unchanged since it was read or with a revocation owed that will reach it. A deletion revokes before it commits, so `DeletionSound` says what the revocation has left by then: only excused sessions of the account, and of the group's members only those excused, still on the list, or owed by an update that brought them in meanwhile. Steps that only read keep this if the request that moves `Carries` what it owes; a commit keeps it if whoever it disturbs is excused or owed to |

`TypeOK` is part of each argument where it is listed. Facts about cardinality
are those of FiniteSetTheorems.

**The four theorems about Answers** hold for any words, directories, DNs,
filters and searches that meet the assumptions of Names, Entries and Answers,
of any number and length, where the run sees some hundreds. A request is
one step there, so the invariants are short; what is long is what the
operators compute.

- `BindsReachTheirAccount`, by `BindInv`: base DN and directory are ones that
  may be stored (`Stored`), and what is asked is something a client sends
  (`AskedKnown`). The rest is about texts: normalising is pointwise and
  idempotent and goes through concatenation, so a normalised DN splits into
  the name and the base in one way only (`UnderMeans`, `SplitUnder`); then the
  name that `usernameFromDN` finds is the one whose DN was given
  (`UsernameFound`, `UsernameFinds`).
- `SearchesStayInTheirScope`, by `ScopeInv`, which adds that a search that
  succeeded was given what it picks of the entries visible (`GivesPicked`).
  Every visible entry is a branch or a leaf at a place of its own
  (`KindOfEntry`); the tree of the documents is put as a condition on an entry
  (`TreeIsDescribed`), and each kind of entry meets it exactly if
  `dnWithinScope` holds of it or of its alias (`ScopeIsDescribed`).
- `MembershipsAgree`, by `MemberInv`, which adds that a base DN in force
  consists of `dc` components, so that no container stands in it. What
  `normalizeComparableDN` leaves of a DN with one container of its own kind is
  the DN without it (`TwoForms`), and of a DN without one the DN itself.
  `Match` is a recursive function; that it is the function its definition
  describes is shown by recursion on the depth of filters (`FunctionByDepth`).
- `AnswersReadBack`, by `ReadInv`: the id answered is the one asked for, taken
  through a Go `int` (`IdReturned`), and every entry answered has finitely many
  values, all of them texts (`EntriesFinite`). The sizes of its elements are
  then numbers, which `LengthsReadBack` is about. For ids, reading octets from
  the left gives what is left of the value when it is divided by 256 as often
  as there are octets to come (`ReadFacts`); leading zeros that `berInteger`
  drops are octets before which nothing is left (`NothingBefore`); and a value
  that an `int` holds is never wrapped on the way (`InRange`).

The folds and sums of the community modules are functions chosen by their
recursive equation. `FunctionByDepth` also gives that such a function exists
for them (`FoldExists`, `SumExists`), after which its values are found number
by number (`NumberByNumber`). These lemmas take the set of all good arguments
as their parameter, so that they can be cited for any predicate.

**Only model-checked.** Liveness (`StaleSessionsEnd`, `SlotsComeBack`,
`ShutsDown`), with fairness and ENABLED, which are outside what TLAPS proves
here. Every invariant and every action property that a run checks is a
theorem. No module uses a recursive operator.

## 6. What is not modelled

- Reading of nested BER elements: input that does not decode ends the
  connection. The debug trace's formatting; it is present only as the reader
  of the server's own answers in `AnswerReadsBack`.
- Argon2, PHC strings, the certificate's contents, random numbers: a password
  is equal or not, a token or pair is new.
- The audit log (one line under one mutex), flags and environment, the filter
  on the HTTP error log, HTML, assets, cookies, headers.
- I/O errors of the database file and of the certificate files other than
  being cut short; exhaustion of memory.

## 7. Plan

Done: the four components with their abstractions and proofs; the
compositions WebAdmin, LdapServer and Answers; the life cycle and the end of
the process; every safety property and every refinement of these, proved. Left:

1. **Liveness by hand**: the safety part of the three liveness properties, a
   step of `run` or of a request that always brings its end closer, as action
   properties with a variant, each checked and proved.
2. **Malformed binds**: the audit of attempts that are refused before the
   limiter or cannot be read, the one hazard without a property.
