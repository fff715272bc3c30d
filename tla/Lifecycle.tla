----------------------------- MODULE Lifecycle ------------------------------
(***************************************************************************)
(* What outlives the process: app.New with EnsurePair (internal/tlsutil),  *)
(* SeedDefaults and EnsureBaseDN (internal/store), and the update of the   *)
(* base DN by the administration UI (internal/web), which is stored in the *)
(* settings table and then set in memory (internal/directory).             *)
(*                                                                         *)
(* The process may stop at any step: a crash, or an interrupt, which       *)
(* cancels the context a start runs under.  A file is written by opening   *)
(* it, which empties it, and then writing; every seeded group and account  *)
(* is a transaction of its own.                                            *)
(***************************************************************************)
EXTENDS Integers, Sequences

CONSTANTS
    DefaultGroups, DefaultUsers,    \* sequences of names, in seeding order
    Texts,          \* base DNs as typed: on the command line or in the form
    NoDN,           \* the normal form of a text that is no base DN; none
    Normal,         \* Normal[t]: the normal form of t (NormalizeBaseDN)
    Reqs,           \* concurrent requests to update the base DN
    MaxStarts       \* bound on starts of the process

ASSUME LifecycleAssumption ==
    /\ \A i, j \in DOMAIN DefaultGroups :
          DefaultGroups[i] = DefaultGroups[j] => i = j
    /\ \A i, j \in DOMAIN DefaultUsers :
          DefaultUsers[i] = DefaultUsers[j] => i = j
    /\ \A names \in {DefaultGroups, DefaultUsers} :
          Len(names) \in Nat \ {0} /\ DOMAIN names = 1..Len(names)
    /\ DOMAIN Normal = Texts
    /\ MaxStarts \in Nat

VARIABLES
    cert, key,      \* the two files: Absent, Partial, or the pair's number
    groups, users,  \* names in the tables
    dn,             \* the base_dn row of the settings table, or NoDN
    pc,             \* what the process is doing
    step,           \* position in the seeding
    flag,           \* the --base-dn of this process
    pair,           \* the certificate pair in memory, or Absent
    memory,         \* Settings.baseDN, or NoDN
    upd,            \* upd[r]: an update of the base DN in progress
    starts,         \* number of starts
    cut,            \* history: where starts have been cut short
    changed,        \* history: accounts have been changed by an administrator
    served,         \* history: the first pair served, or Absent
    raced           \* history: the last save came between a save and its apply

vars == <<cert, key, groups, users, dn, pc, step, flag, pair, memory, upd,
          starts, cut, changed, served, raced>>
files == <<cert, key>>
tables == <<groups, users, dn>>
process == <<step, flag, pair, memory, upd, starts>>
history == <<cut, changed, served, raced>>

Absent == 0
Partial == -1
File == Partial..MaxStarts
DNs == {Normal[t] : t \in Texts} \ {NoDN}

RangeOf(s) == {s[i] : i \in DOMAIN s}
GroupNames == RangeOf(DefaultGroups)
UserNames == RangeOf(DefaultUsers)

Starting == {"pair", "certData", "keyFile", "keyData", "seed", "seedGroups",
             "seedUsers", "baseDN"}
Update == [pc : {"idle", "save", "apply"}, dn : DNs \cup {NoDN}]
Idle == [pc |-> "idle", dn |-> NoDN]

TypeOK ==
    /\ cert \in File /\ key \in File /\ pair \in File /\ served \in File
    /\ groups \in SUBSET GroupNames /\ users \in SUBSET UserNames
    /\ dn \in DNs \cup {NoDN} /\ memory \in DNs \cup {NoDN}
    /\ pc \in Starting \cup {"down", "up", "failed"}
    /\ pc = "up" <=> memory # NoDN
    /\ step \in Nat
    /\ flag \in Texts
    /\ upd \in [Reqs -> Update]
    /\ starts \in 0..MaxStarts
    /\ cut \in SUBSET Starting
    /\ changed \in BOOLEAN /\ raced \in BOOLEAN

Init ==
    /\ cert = Absent /\ key = Absent
    /\ groups = {} /\ users = {} /\ dn = NoDN
    /\ pc = "down"
    /\ step = 1
    /\ flag \in Texts
    /\ pair = Absent /\ memory = NoDN
    /\ upd = [r \in Reqs |-> Idle]
    /\ starts = 0
    /\ cut = {} /\ changed = FALSE /\ served = Absent /\ raced = FALSE

Goto(next) == pc' = next

-----------------------------------------------------------------------------
Start(text) ==
    /\ pc = "down"
    /\ starts < MaxStarts
    /\ starts' = starts + 1
    /\ flag' = text
    /\ Goto("pair")
    /\ UNCHANGED <<files, tables, history, step, pair, memory, upd>>

(* EnsurePair: the files are used if both exist, whatever is in them.      *)
(* Fault: the pair is made anew at every start.                            *)
BothExistNever == FALSE
BothExist == cert # Absent /\ key # Absent

LoadPair ==
    /\ pc = "pair" /\ BothExist
    /\ IF cert = key /\ cert # Partial
       THEN Goto("seed") /\ pair' = cert
       ELSE Goto("failed") /\ UNCHANGED pair
    /\ UNCHANGED <<files, tables, history, step, flag, memory, upd, starts>>

(* The pair generated in a start bears the number of the start.            *)
OpenCert ==
    /\ pc = "pair" /\ ~BothExist
    /\ cert' = Partial
    /\ Goto("certData")
    /\ UNCHANGED <<key, tables, process, history>>

WriteCert ==
    /\ pc = "certData"
    /\ cert' = starts
    /\ Goto("keyFile")
    /\ UNCHANGED <<key, tables, process, history>>

OpenKey ==
    /\ pc = "keyFile"
    /\ key' = Partial
    /\ Goto("keyData")
    /\ UNCHANGED <<cert, tables, process, history>>

WriteKey ==
    /\ pc = "keyData"
    /\ key' = starts
    /\ pair' = starts
    /\ Goto("seed")
    /\ UNCHANGED <<cert, tables, history, step, flag, memory, upd, starts>>

-----------------------------------------------------------------------------
(* SeedDefaults: only if there is no account.                              *)
(* Fault: it does not look; it looks for a group.                          *)
SeedNeededAlways == TRUE
SeedNeededForGroups == groups = {}
SeedNeeded == users = {}

SeedDefaults ==
    /\ pc = "seed"
    /\ Goto(IF SeedNeeded THEN "seedGroups" ELSE "baseDN")
    /\ step' = 1
    /\ UNCHANGED <<files, tables, history, flag, pair, memory, upd, starts>>

(* The next of names goes into table, or, if it is there, the start fails. *)
Seed(names, table, next) ==
    IF names[step] \in table
    THEN Goto("failed") /\ UNCHANGED step
    ELSE IF step < Len(names) THEN step' = step + 1 /\ UNCHANGED pc
                              ELSE step' = 1 /\ Goto(next)

SeedGroup ==
    /\ pc = "seedGroups"
    /\ Seed(DefaultGroups, groups, "seedUsers")
    /\ groups' = groups \cup {DefaultGroups[step]}
    /\ UNCHANGED <<files, users, dn, history, flag, pair, memory, upd, starts>>

SeedUser ==
    /\ pc = "seedUsers"
    /\ Seed(DefaultUsers, users, "baseDN")
    /\ users' = users \cup {DefaultUsers[step]}
    /\ UNCHANGED <<files, groups, dn, history, flag, pair, memory, upd, starts>>

(* EnsureBaseDN: the flag counts only while the row is missing.            *)
(* Fault: it always counts.                                                *)
FlagUsedAlways == dn # Normal[flag]
FlagUsed == dn = NoDN

NormalizeBaseDN(text) == Normal[text]

InsertBaseDN ==
    /\ pc = "baseDN" /\ FlagUsed
    /\ IF NormalizeBaseDN(flag) = NoDN
       THEN Goto("failed") /\ UNCHANGED dn
       ELSE dn' = NormalizeBaseDN(flag) /\ UNCHANGED pc
    /\ UNCHANGED <<files, groups, users, process, history>>

(* NewSettings, and the servers start.                                     *)
Serve ==
    /\ pc = "baseDN" /\ ~FlagUsed
    /\ memory' = dn
    /\ served' = IF served = Absent THEN pair ELSE served
    /\ Goto("up")
    /\ UNCHANGED <<files, tables, step, flag, pair, upd, starts, cut, changed,
                   raced>>

(* The process stops: it crashes, is interrupted, or has failed to start.  *)
Stop ==
    /\ pc # "down"
    /\ Goto("down")
    /\ pair' = Absent /\ memory' = NoDN /\ step' = 1
    /\ upd' = [r \in Reqs |-> Idle]
    /\ cut' = cut \cup ({pc} \cap Starting)
    /\ raced' = FALSE
    /\ UNCHANGED <<files, tables, flag, starts, changed, served>>

-----------------------------------------------------------------------------
(* handleUpdateBaseDN: the text is refused, or stored and then applied.    *)
UpdateBaseDN(r, text) ==
    /\ pc = "up" /\ users # {}
    /\ upd[r].pc = "idle"
    /\ NormalizeBaseDN(text) # NoDN
    /\ upd' = [upd EXCEPT ![r] = [pc |-> "save", dn |-> NormalizeBaseDN(text)]]
    /\ UNCHANGED <<files, tables, history, pc, step, flag, pair, memory, starts>>

Save(r) ==
    /\ upd[r].pc = "save"
    /\ dn' = upd[r].dn
    /\ upd' = [upd EXCEPT ![r].pc = "apply"]
    /\ raced' = \E q \in Reqs : upd[q].pc = "apply"
    /\ UNCHANGED <<files, groups, users, pc, step, flag, pair, memory, starts,
                   cut, changed, served>>

(* The statement fails, for one because the client has disconnected.       *)
(* Fault: the value is applied nevertheless.                               *)
NotSavedApplied(r) == [upd[r] EXCEPT !.pc = "apply"]
NotSaved(r) == Idle

SaveFails(r) ==
    /\ upd[r].pc = "save"
    /\ upd' = [upd EXCEPT ![r] = NotSaved(r)]
    /\ UNCHANGED <<files, tables, history, pc, step, flag, pair, memory, starts>>

Apply(r) ==
    /\ upd[r].pc = "apply"
    /\ memory' = upd[r].dn
    /\ upd' = [upd EXCEPT ![r] = Idle]
    /\ UNCHANGED <<files, tables, history, pc, step, flag, pair, starts>>

(* An administrator, who has an account, deletes accounts or groups.       *)
ChangeAccounts ==
    /\ pc = "up" /\ users # {}
    /\ \/ \E n \in users : users' = users \ {n} /\ UNCHANGED groups
       \/ \E n \in groups : groups' = groups \ {n} /\ UNCHANGED users
    /\ changed' = TRUE
    /\ UNCHANGED <<files, dn, process, pc, cut, served, raced>>

Next ==
    \/ \E text \in Texts : Start(text)
    \/ LoadPair \/ OpenCert \/ WriteCert \/ OpenKey \/ WriteKey
    \/ SeedDefaults \/ SeedGroup \/ SeedUser
    \/ InsertBaseDN \/ Serve \/ Stop
    \/ \E r \in Reqs :
          \/ \E text \in Texts : UpdateBaseDN(r, text)
          \/ Save(r) \/ SaveFails(r) \/ Apply(r)
    \/ ChangeAccounts

Spec == Init /\ [][Next]_vars

-----------------------------------------------------------------------------
(* With no update in progress, the base DN in use is the one a restart     *)
(* would find, unless the last two updates were interleaved.               *)
AppliedIsPersisted ==
    pc = "up" /\ (\A r \in Reqs : upd[r] = Idle) /\ ~raced => memory = dn

(* Once there is a base DN in the table, only an update changes it: no     *)
(* restart, with whatever flag, and no update that failed.                 *)
FlagOnlySeeds ==
    [][dn # NoDN /\ dn' # dn => \E r \in Reqs : upd[r].pc = "save"
                                                  /\ dn' = upd[r].dn]_vars

(* Clients that have fetched /ca.crt can go on trusting it: the first pair *)
(* served is the pair of every later start.                                *)
PairKept == pc = "up" => pair = served

(* A start that fails does so because an earlier start was cut short while *)
(* it wrote the key or seeded the tables, because an administrator removed *)
(* accounts, or because the flag is wrong and there is no stored base DN.  *)
(* Stopping a running server, at whatever point of whatever request, does  *)
(* no harm.                                                                *)
FailuresExplained ==
    pc = "failed" =>
        \/ cut \cap {"keyData", "seedGroups", "seedUsers"} # {}
        \/ changed
        \/ Normal[flag] = NoDN /\ dn = NoDN

(* The first run provisions all default accounts (README.md:11), and a     *)
(* server that runs and has not been administered has them: unless a start *)
(* was cut short among the accounts.  The next one then finds an account   *)
(* and never seeds the others.                                             *)
ProvisionedUnlessCut ==
    pc = "up" /\ ~changed /\ "seedUsers" \notin cut => users = UserNames

=============================================================================
