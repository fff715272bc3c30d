--------------------------- MODULE LifecycleProofs --------------------------
(***************************************************************************)
(* Proofs about what outlives the process, for any default accounts, any   *)
(* texts, any number of starts and of concurrent updates, and crashes at   *)
(* every step.                                                             *)
(*                                                                         *)
(* The invariant says what a crash may leave behind: a key that is empty   *)
(* or has no certificate only if the start that wrote it was cut short;    *)
(* accounts that are neither none nor all only if one was cut short among  *)
(* them; groups without accounts only if one was cut short in the seeding. *)
(***************************************************************************)
EXTENDS Lifecycle, TLAPS

Counting == starts \in Nat /\ (pc # "down" => starts # 0)

Files ==
    /\ pc \in {"certData", "keyFile"} => key = Absent
    /\ pc \in {"keyFile", "keyData"} => cert = starts
    /\ pc = "keyData" => key = Partial
    /\ key # Absent =>
          /\ cert # Absent
          /\ pc = "keyData" \/ "keyData" \in cut \/ (key = cert /\ cert # Partial)

Kept ==
    /\ served # Absent => cert = served /\ key = served /\ served # Partial
    /\ pc \in {"seed", "seedGroups", "seedUsers", "baseDN"}
          => cert = pair /\ key = pair /\ pair # Absent /\ pair # Partial
    /\ pc = "up" => pair = served /\ served # Absent

(* The names seeded when the next is names[step].                          *)
Before(names) == {names[i] : i \in 1..(step - 1)}
Seeding(names) == step \in 1..Len(names)

Accounts ==
    ~changed /\ "seedUsers" \notin cut =>
        /\ users \in {{}, UserNames} \/ pc = "seedUsers"
        /\ pc = "seedGroups" => users = {}
        /\ pc = "seedUsers" => Seeding(DefaultUsers) /\ users = Before(DefaultUsers)
        /\ pc \in {"baseDN", "up"} => users = UserNames

GroupsToo ==
    ~changed /\ cut \cap {"seedGroups", "seedUsers"} = {} =>
        /\ pc = "seedGroups" => Seeding(DefaultGroups) /\ groups = Before(DefaultGroups)
        /\ pc \notin {"seedGroups", "seedUsers"} /\ users = {} => groups = {}

Applying(r) == upd[r].pc = "apply"

Applied ==
    /\ pc # "up" => \A r \in Reqs : upd[r] = Idle
    /\ pc = "up" /\ ~raced =>
          /\ \A r \in Reqs : Applying(r) => upd[r].dn = dn
          /\ (\A r \in Reqs : ~Applying(r)) => memory = dn

Shape == DOMAIN upd = Reqs /\ \A r \in Reqs : {"pc", "dn"} = DOMAIN upd[r]

Inv == Counting /\ Files /\ Kept /\ Accounts /\ GroupsToo /\ Shape /\ Applied
       /\ FailuresExplained

-----------------------------------------------------------------------------
LEMMA Seeded ==
    ASSUME NEW names \in {DefaultGroups, DefaultUsers}, Seeding(names)
    PROVE  /\ step < Len(names) => {names[i] : i \in 1..step} = Before(names) \cup {names[step]}
           /\ step = Len(names) => RangeOf(names) = Before(names) \cup {names[step]}
           /\ RangeOf(names) # {}
           /\ names[step] \notin Before(names)
  <1>1. /\ Len(names) \in Nat \ {0} /\ DOMAIN names = 1..Len(names)
        /\ \A i, j \in DOMAIN names : names[i] = names[j] => i = j
    BY LifecycleAssumption
  <1>2. step \in 1..Len(names) /\ 1..step = 1..(step - 1) \cup {step}
    BY <1>1 DEF Seeding
  <1>3. names[step] \notin Before(names)
    BY <1>1, <1>2 DEF Before
  <1>4. {names[i] : i \in 1..step} = Before(names) \cup {names[step]}
    BY <1>2 DEF Before
  <1>5. step = Len(names) => RangeOf(names) = {names[i] : i \in 1..step}
    BY <1>1, <1>2 DEF RangeOf
  <1>6. names[1] \in RangeOf(names)
    BY <1>1 DEF RangeOf
  <1> QED BY <1>3, <1>4, <1>5, <1>6

LEMMA NamesThere == UserNames # {} /\ GroupNames # {}
  BY LifecycleAssumption DEF UserNames, GroupNames, RangeOf

LEMMA InitInv == Init => Inv
  <1> SUFFICES ASSUME Init PROVE Inv
    OBVIOUS
  <1>1. Counting /\ Files /\ Kept /\ Accounts /\ GroupsToo
    BY DEF Init, Counting, Files, Kept, Accounts, GroupsToo, Absent
  <1>2. Shape /\ Applied /\ FailuresExplained
    BY DEF Init, Shape, Applied, FailuresExplained, Idle
  <1> QED BY <1>1, <1>2 DEF Inv


-----------------------------------------------------------------------------
(* EnsurePair, step by step.                                                *)
LEMMA FilesStep == Inv /\ [Next]_vars => Counting' /\ Files'
  <1> SUFFICES ASSUME Inv, [Next]_vars PROVE Counting' /\ Files'
    OBVIOUS
  <1> USE DEF Inv, Counting, Files, Absent, Partial, Goto, files, tables, process, history
  <1>1. ASSUME NEW text \in Texts, Start(text) PROVE Counting' /\ Files'
    BY <1>1 DEF Start
  <1>2. CASE LoadPair
    BY <1>2 DEF LoadPair
  <1>3. CASE OpenCert
    BY <1>3 DEF OpenCert, BothExist
  <1>4. CASE WriteCert
    BY <1>4 DEF WriteCert
  <1>5. CASE OpenKey
    BY <1>5 DEF OpenKey
  <1>6. CASE WriteKey
    BY <1>6 DEF WriteKey
  <1>7. CASE SeedDefaults
    BY <1>7 DEF SeedDefaults
  <1>8. CASE SeedGroup
    BY <1>8 DEF SeedGroup, Seed
  <1>9. CASE SeedUser
    BY <1>9 DEF SeedUser, Seed
  <1>10. CASE InsertBaseDN
    BY <1>10 DEF InsertBaseDN
  <1>11. CASE Serve
    BY <1>11 DEF Serve
  <1>12. CASE Stop
    BY <1>12 DEF Stop, Starting
  <1>13. CASE ChangeAccounts
    BY <1>13 DEF ChangeAccounts
  <1>14. ASSUME NEW r \in Reqs,
               (\E text \in Texts : UpdateBaseDN(r, text)) \/ Save(r) \/ SaveFails(r) \/ Apply(r)
        PROVE  Counting' /\ Files'
    BY <1>14 DEF UpdateBaseDN, Save, SaveFails, Apply
  <1>15. CASE UNCHANGED vars
    BY <1>15 DEF vars
  <1> QED BY <1>1, <1>2, <1>3, <1>4, <1>5, <1>6, <1>7, <1>8, <1>9, <1>10, <1>11, <1>12, <1>13, <1>14, <1>15 DEF Next

(* A pair that has been served is never written over.                       *)
LEMMA KeptStep == Inv /\ [Next]_vars => Kept'
  <1> SUFFICES ASSUME Inv, [Next]_vars PROVE Kept'
    OBVIOUS
  <1> USE DEF Inv, Counting, Files, Kept, Absent, Partial, Goto, files, tables, process, history
  <1>1. ASSUME NEW text \in Texts, Start(text) PROVE Kept'
    BY <1>1 DEF Start
  <1>2. CASE LoadPair
    BY <1>2 DEF LoadPair, BothExist
  <1>3. CASE OpenCert
    BY <1>3 DEF OpenCert, BothExist
  <1>4. CASE WriteCert
    BY <1>4 DEF WriteCert
  <1>5. CASE OpenKey
    BY <1>5 DEF OpenKey
  <1>6. CASE WriteKey
    BY <1>6 DEF WriteKey
  <1>7. CASE SeedDefaults
    BY <1>7 DEF SeedDefaults
  <1>8. CASE SeedGroup
    BY <1>8 DEF SeedGroup, Seed
  <1>9. CASE SeedUser
    BY <1>9 DEF SeedUser, Seed
  <1>10. CASE InsertBaseDN
    BY <1>10 DEF InsertBaseDN
  <1>11. CASE Serve
    BY <1>11 DEF Serve
  <1>12. CASE Stop
    BY <1>12 DEF Stop, Starting
  <1>13. CASE ChangeAccounts
    BY <1>13 DEF ChangeAccounts
  <1>14. ASSUME NEW r \in Reqs,
               (\E text \in Texts : UpdateBaseDN(r, text)) \/ Save(r) \/ SaveFails(r) \/ Apply(r)
        PROVE  Kept'
    BY <1>14 DEF UpdateBaseDN, Save, SaveFails, Apply
  <1>15. CASE UNCHANGED vars
    BY <1>15 DEF vars
  <1> QED BY <1>1, <1>2, <1>3, <1>4, <1>5, <1>6, <1>7, <1>8, <1>9, <1>10, <1>11, <1>12, <1>13, <1>14, <1>15 DEF Next

(* SeedDefaults: accounts are seeded one by one, and all of them.          *)
LEMMA AccountsStep == Inv /\ [Next]_vars => Accounts'
  <1> SUFFICES ASSUME Inv, [Next]_vars PROVE Accounts'
    OBVIOUS
  <1> USE DEF Inv, Accounts, Goto, files, tables, process, history
  <1>1. ASSUME NEW text \in Texts, Start(text) PROVE Accounts'
    BY <1>1 DEF Start
  <1>2. CASE LoadPair
    BY <1>2 DEF LoadPair
  <1>3. CASE OpenCert
    BY <1>3 DEF OpenCert
  <1>4. CASE WriteCert
    BY <1>4 DEF WriteCert
  <1>5. CASE OpenKey
    BY <1>5 DEF OpenKey
  <1>6. CASE WriteKey
    BY <1>6 DEF WriteKey
  <1>7. CASE SeedDefaults
    BY <1>7 DEF SeedDefaults, SeedNeeded
  <1>8. CASE SeedGroup
    <2>1. UserNames # {} /\ Len(DefaultUsers) \in Nat \ {0}
      BY LifecycleAssumption, NamesThere
    <2>2. pc' \in {"seedGroups", "seedUsers", "failed"} /\ users' = users
          /\ changed' = changed /\ cut' = cut /\ pc = "seedGroups"
      BY <1>8 DEF SeedGroup, Seed
    <2>3. pc' = "seedUsers" => step' = 1
      BY <1>8 DEF SeedGroup, Seed
    <2>4. pc' = "seedUsers" => Before(DefaultUsers)' = {}
      BY <2>3 DEF Before
    <2>5. pc' = "seedUsers" => Seeding(DefaultUsers)'
      BY <2>1, <2>3 DEF Seeding
    <2> QED BY <2>2, <2>4, <2>5
  <1>9. CASE SeedUser
    <2> SUFFICES ASSUME ~changed, "seedUsers" \notin cut PROVE Accounts'
      BY <1>9 DEF SeedUser
    <2>1. Seeding(DefaultUsers) /\ users = Before(DefaultUsers) /\ pc = "seedUsers"
      BY <1>9 DEF SeedUser
    <2>2. DefaultUsers[step] \notin users
      BY <2>1, Seeded
    <2>3. users' = users \cup {DefaultUsers[step]}
      BY <1>9 DEF SeedUser
    <2>4. CASE step < Len(DefaultUsers)
      <3>1. step' = step + 1 /\ pc' = pc
        BY <1>9, <2>2, <2>4 DEF SeedUser, Seed
      <3>2. Seeding(DefaultUsers)'
        BY <2>1, <2>4, <3>1, LifecycleAssumption DEF Seeding
      <3>3. Before(DefaultUsers)' = {DefaultUsers[i] : i \in 1..step}
        BY <2>1, <3>1, LifecycleAssumption DEF Before, Seeding
      <3> QED BY <2>1, <2>3, <2>4, <3>1, <3>2, <3>3, Seeded
    <2>5. CASE ~(step < Len(DefaultUsers))
      <3>1. pc' = "baseDN"
        BY <1>9, <2>2, <2>5 DEF SeedUser, Seed
      <3>2. step = Len(DefaultUsers)
        <4>1. step \in 1..Len(DefaultUsers) /\ Len(DefaultUsers) \in Nat
          BY <2>1, LifecycleAssumption DEF Seeding
        <4> HIDE DEF Inv, Accounts
        <4> QED BY <2>5, <4>1
      <3>3. users' = UserNames
        BY <2>1, <2>3, <3>2, Seeded DEF UserNames
      <3> QED BY <3>1, <3>3
    <2> QED BY <2>4, <2>5
  <1>10. CASE InsertBaseDN
    BY <1>10 DEF InsertBaseDN
  <1>11. CASE Serve
    BY <1>11 DEF Serve
  <1>12. CASE Stop
    BY <1>12 DEF Stop, Starting
  <1>13. CASE ChangeAccounts
    BY <1>13 DEF ChangeAccounts
  <1>14. ASSUME NEW r \in Reqs,
               (\E text \in Texts : UpdateBaseDN(r, text)) \/ Save(r) \/ SaveFails(r) \/ Apply(r)
        PROVE  Accounts'
    BY <1>14 DEF UpdateBaseDN, Save, SaveFails, Apply, Before, Seeding
  <1>15. CASE UNCHANGED vars
    BY <1>15 DEF vars, Before, Seeding
  <1> QED BY <1>1, <1>2, <1>3, <1>4, <1>5, <1>6, <1>7, <1>8,
     <1>9, <1>10, <1>11, <1>12, <1>13, <1>14, <1>15 DEF Next

(* The same for groups, which come first.                                  *)
LEMMA GroupsStep == Inv /\ [Next]_vars => GroupsToo'
  <1> SUFFICES ASSUME Inv, [Next]_vars PROVE GroupsToo'
    OBVIOUS
  <1> USE DEF Inv, Accounts, GroupsToo, Goto, files, tables, process, history
  <1>1. ASSUME NEW text \in Texts, Start(text) PROVE GroupsToo'
    BY <1>1 DEF Start
  <1>2. CASE LoadPair
    BY <1>2 DEF LoadPair
  <1>3. CASE OpenCert
    BY <1>3 DEF OpenCert
  <1>4. CASE WriteCert
    BY <1>4 DEF WriteCert
  <1>5. CASE OpenKey
    BY <1>5 DEF OpenKey
  <1>6. CASE WriteKey
    BY <1>6 DEF WriteKey
  <1>7. CASE SeedDefaults
    <2>1. step' = 1 /\ Before(DefaultGroups)' = {}
      BY <1>7 DEF SeedDefaults, Before
    <2>2. Seeding(DefaultGroups)'
      BY <2>1, LifecycleAssumption DEF Seeding
    <2> QED BY <1>7, <2>1, <2>2 DEF SeedDefaults, SeedNeeded
  <1>8. CASE SeedGroup
    <2> SUFFICES ASSUME ~changed, cut \cap {"seedGroups", "seedUsers"} = {}
                 PROVE  GroupsToo'
      BY <1>8 DEF SeedGroup
    <2>1. Seeding(DefaultGroups) /\ groups = Before(DefaultGroups) /\ pc = "seedGroups"
      BY <1>8 DEF SeedGroup
    <2>2. DefaultGroups[step] \notin groups
      BY <2>1, Seeded
    <2>3. groups' = groups \cup {DefaultGroups[step]}
      BY <1>8 DEF SeedGroup
    <2>4. CASE step < Len(DefaultGroups)
      <3>1. step' = step + 1 /\ pc' = pc
        BY <1>8, <2>2, <2>4 DEF SeedGroup, Seed
      <3>2. Seeding(DefaultGroups)'
        BY <2>1, <2>4, <3>1, LifecycleAssumption DEF Seeding
      <3>3. Before(DefaultGroups)' = {DefaultGroups[i] : i \in 1..step}
        BY <2>1, <3>1, LifecycleAssumption DEF Before, Seeding
      <3> QED BY <2>1, <2>3, <2>4, <3>1, <3>2, <3>3, Seeded
    <2>5. CASE ~(step < Len(DefaultGroups))
      BY <1>8, <2>2, <2>5 DEF SeedGroup, Seed
    <2> QED BY <2>4, <2>5
  <1>9. CASE SeedUser
    <2>1. users' # {}
      BY <1>9 DEF SeedUser
    <2>2. pc' # "seedGroups"
      BY <1>9 DEF SeedUser, Seed
    <2> QED BY <2>1, <2>2
  <1>10. CASE InsertBaseDN
    BY <1>10 DEF InsertBaseDN
  <1>11. CASE Serve
    BY <1>11 DEF Serve
  <1>12. CASE Stop
    BY <1>12 DEF Stop, Starting
  <1>13. CASE ChangeAccounts
    BY <1>13 DEF ChangeAccounts
  <1>14. ASSUME NEW r \in Reqs,
               (\E text \in Texts : UpdateBaseDN(r, text)) \/ Save(r) \/ SaveFails(r) \/ Apply(r)
        PROVE  GroupsToo'
    BY <1>14 DEF UpdateBaseDN, Save, SaveFails, Apply, Before, Seeding
  <1>15. CASE UNCHANGED vars
    BY <1>15 DEF vars, Before, Seeding
  <1> QED BY <1>1, <1>2, <1>3, <1>4, <1>5, <1>6, <1>7, <1>8,
     <1>9, <1>10, <1>11, <1>12, <1>13, <1>14, <1>15 DEF Next



-----------------------------------------------------------------------------
(* The base DN: with no interleaved updates, what is in memory is what is   *)
(* in the table, or the update under way will bring it there.               *)
LEMMA AppliedStep == Inv /\ [Next]_vars => Shape' /\ Applied'
  <1> SUFFICES ASSUME Inv, [Next]_vars PROVE Shape' /\ Applied'
    OBVIOUS
  <1> USE DEF Inv, Shape, Applied, Applying, Idle, Goto, files, tables, process, history
  <1>1. ASSUME NEW text \in Texts, Start(text) PROVE Shape' /\ Applied'
    BY <1>1 DEF Start
  <1>2. CASE LoadPair
    BY <1>2 DEF LoadPair
  <1>3. CASE OpenCert \/ WriteCert \/ OpenKey \/ WriteKey
    BY <1>3 DEF OpenCert, WriteCert, OpenKey, WriteKey
  <1>4. CASE SeedDefaults
    BY <1>4 DEF SeedDefaults
  <1>5. CASE SeedGroup \/ SeedUser
    BY <1>5 DEF SeedGroup, SeedUser, Seed
  <1>6. CASE InsertBaseDN
    BY <1>6 DEF InsertBaseDN
  <1>7. CASE Serve
    BY <1>7 DEF Serve
  <1>8. CASE Stop
    BY <1>8 DEF Stop
  <1>9. CASE ChangeAccounts
    BY <1>9 DEF ChangeAccounts
  <1>10. ASSUME NEW r \in Reqs, NEW text \in Texts, UpdateBaseDN(r, text)
         PROVE  Shape' /\ Applied'
    BY <1>10 DEF UpdateBaseDN
  <1>11. ASSUME NEW r \in Reqs, Save(r) PROVE Shape' /\ Applied'
    <2>1. pc = "up" /\ pc' = pc /\ dn' = upd[r].dn /\ memory' = memory
      BY <1>11 DEF Save
    <2>2. upd' = [upd EXCEPT ![r] = [upd[r] EXCEPT !.pc = "apply"]]
      BY <1>11 DEF Save
    <2>3. Shape'
      BY <2>2
    <2>4. upd'[r].pc = "apply" /\ upd'[r].dn = dn'
      BY <2>1, <2>2
    <2>5. ~raced' => \A q \in Reqs \ {r} : upd'[q] = upd[q] /\ ~Applying(q)
      BY <2>2, <1>11 DEF Save
    <2> QED BY <2>1, <2>3, <2>4, <2>5
  <1>12. ASSUME NEW r \in Reqs, SaveFails(r) PROVE Shape' /\ Applied'
    BY <1>12 DEF SaveFails, NotSaved
  <1>13. ASSUME NEW r \in Reqs, Apply(r) PROVE Shape' /\ Applied'
    BY <1>13 DEF Apply
  <1>14. CASE UNCHANGED vars
    BY <1>14 DEF vars
  <1> QED BY <1>1, <1>2, <1>3, <1>4, <1>5, <1>6, <1>7, <1>8, <1>9, <1>10, <1>11,
             <1>12, <1>13, <1>14 DEF Next

(* A failed start explains itself when it fails.                            *)
LEMMA FailuresStep == Inv /\ [Next]_vars => FailuresExplained'
  <1> SUFFICES ASSUME Inv, [Next]_vars PROVE FailuresExplained'
    OBVIOUS
  <1> USE DEF Inv, FailuresExplained, Goto, files, tables, process, history
  <1>1. ASSUME NEW text \in Texts, Start(text) PROVE FailuresExplained'
    BY <1>1 DEF Start
  <1>2. CASE LoadPair
    BY <1>2 DEF LoadPair, BothExist, Files, Absent, Partial
  <1>3. CASE OpenCert \/ WriteCert \/ OpenKey \/ WriteKey
    BY <1>3 DEF OpenCert, WriteCert, OpenKey, WriteKey
  <1>4. CASE SeedDefaults
    BY <1>4 DEF SeedDefaults
  <1>5. CASE SeedGroup
    <2>1. ~changed /\ cut \cap {"seedGroups", "seedUsers"} = {}
             => DefaultGroups[step] \notin groups
      BY <1>5, Seeded DEF SeedGroup, GroupsToo
    <2>2. pc' = "failed" => DefaultGroups[step] \in groups
      BY <1>5 DEF SeedGroup, Seed
    <2> QED BY <1>5, <2>1, <2>2 DEF SeedGroup
  <1>6. CASE SeedUser
    <2>1. ~changed /\ "seedUsers" \notin cut => DefaultUsers[step] \notin users
      BY <1>6, Seeded DEF SeedUser, Accounts
    <2>2. pc' = "failed" => DefaultUsers[step] \in users
      BY <1>6 DEF SeedUser, Seed
    <2> QED BY <1>6, <2>1, <2>2 DEF SeedUser
  <1>7. CASE InsertBaseDN
    BY <1>7 DEF InsertBaseDN, FlagUsed, NormalizeBaseDN
  <1>8. CASE Serve
    BY <1>8 DEF Serve
  <1>9. CASE Stop
    BY <1>9 DEF Stop
  <1>10. CASE ChangeAccounts
    BY <1>10 DEF ChangeAccounts
  <1>11. ASSUME NEW r \in Reqs,
               (\E text \in Texts : UpdateBaseDN(r, text)) \/ Save(r) \/ SaveFails(r) \/ Apply(r)
        PROVE  FailuresExplained'
    <2>1. pc # "up" => upd[r].pc = "idle"
      BY <1>11 DEF Applied, Idle
    <2>2. pc' = "up"
      BY <1>11, <2>1 DEF UpdateBaseDN, Save, SaveFails, Apply
    <2> QED BY <2>2
  <1>12. CASE UNCHANGED vars
    BY <1>12 DEF vars
  <1> QED BY <1>1, <1>2, <1>3, <1>4, <1>5, <1>6, <1>7, <1>8, <1>9, <1>10, <1>11,
             <1>12 DEF Next

THEOREM Invariance == Spec => []Inv
  <1>1. Inv /\ [Next]_vars => Inv'
    BY FilesStep, KeptStep, AccountsStep, GroupsStep, AppliedStep, FailuresStep DEF Inv
  <1> QED BY InitInv, <1>1, PTL DEF Spec

-----------------------------------------------------------------------------
(* The certificate pair a client has trusted is the pair of every later     *)
(* start (EnsurePair), wherever starts are cut short.                       *)
THEOREM PairLasts == Spec => []PairKept
  <1>1. Inv => PairKept
    BY DEF Inv, Kept, PairKept
  <1> QED BY Invariance, <1>1, PTL

(* handleUpdateBaseDN: unless updates interleave, memory is the table.      *)
THEOREM AppliedPersists == Spec => []AppliedIsPersisted
  <1>1. Inv => AppliedIsPersisted
    BY DEF Inv, Applied, Applying, Idle, AppliedIsPersisted
  <1> QED BY Invariance, <1>1, PTL

(* app.New fails for a named cause only.                                    *)
THEOREM FailuresHaveCause == Spec => []FailuresExplained
  <1>1. Inv => FailuresExplained
    BY DEF Inv
  <1> QED BY Invariance, <1>1, PTL

(* SeedDefaults provisions every account, unless cut short among them.      *)
THEOREM Provisioned == Spec => []ProvisionedUnlessCut
  <1>1. Inv => ProvisionedUnlessCut
    BY DEF Inv, Accounts, ProvisionedUnlessCut
  <1> QED BY Invariance, <1>1, PTL

(* EnsureBaseDN: no restart, with whatever flag, changes a stored base DN.  *)
THEOREM FlagSeedsOnly == Spec => FlagOnlySeeds
  <1> DEFINE A == dn # NoDN /\ dn' # dn
                    => \E r \in Reqs : upd[r].pc = "save" /\ dn' = upd[r].dn
  <1>1. Next => A
    BY DEF Next, Start, LoadPair, OpenCert, WriteCert, OpenKey, WriteKey, SeedDefaults,
           SeedGroup, SeedUser, InsertBaseDN, FlagUsed, Serve, Stop, UpdateBaseDN, Save,
           SaveFails, Apply, ChangeAccounts, files, tables, process, history
  <1>2. [Next]_vars => [A]_vars
    BY <1>1
  <1> QED BY <1>2, PTL DEF Spec, FlagOnlySeeds

-----------------------------------------------------------------------------
(* What the types rest on: the position in the seeding is in range, and a   *)
(* base DN to be stored or applied is one, of a running process.            *)
InRange ==
    /\ pc = "seedGroups" => Seeding(DefaultGroups)
    /\ pc = "seedUsers" => Seeding(DefaultUsers)
    /\ \A r \in Reqs : upd[r] # Idle => pc = "up" /\ upd[r].dn # NoDN

Typed == TypeOK /\ InRange

LEMMA FileFacts ==
    /\ Absent \in File /\ Partial \in File
    /\ \A n \in 0..MaxStarts : n \in File /\ n + 1 \in Nat
  BY LifecycleAssumption DEF File, Absent, Partial

LEMMA IdleFacts == [r \in Reqs |-> Idle] \in [Reqs -> Update]
  BY DEF Update, Idle

LEMMA TypedInit == Init => Typed
  <1> SUFFICES ASSUME Init PROVE Typed
    OBVIOUS
  <1>1. TypeOK
    <2>1. starts \in 0..MaxStarts /\ step \in Nat
      BY LifecycleAssumption DEF Init
    <2>2. cert \in File /\ key \in File /\ pair \in File /\ served \in File
      BY FileFacts DEF Init
    <2>3. upd \in [Reqs -> Update]
      BY IdleFacts DEF Init
    <2> QED BY <2>1, <2>2, <2>3 DEF Init, TypeOK
  <1>2. InRange
    BY DEF Init, InRange
  <1> QED BY <1>1, <1>2 DEF Typed

LEMMA TypedSeed ==
    ASSUME Typed, NEW names \in {DefaultGroups, DefaultUsers}, Seeding(names), NEW table,
           NEW next, Seed(names, table, next)
    PROVE  /\ step' \in Nat /\ names[step] \in RangeOf(names)
           /\ \/ pc' = "failed"
              \/ pc' = next /\ step' = 1
              \/ pc' = pc /\ Seeding(names)'
  <1>1. step \in 1..Len(names) /\ Len(names) \in Nat /\ DOMAIN names = 1..Len(names)
    BY LifecycleAssumption DEF Seeding
  <1>2. CASE names[step] \in table
    <2>1. step' = step /\ pc' = "failed"
      BY <1>2 DEF Seed, Goto
    <2> QED BY <1>1, <2>1 DEF RangeOf
  <1>3. CASE names[step] \notin table /\ step < Len(names)
    <2>1. step' = step + 1 /\ pc' = pc
      BY <1>3 DEF Seed
    <2> QED BY <1>1, <1>3, <2>1 DEF Seeding, RangeOf
  <1>4. CASE names[step] \notin table /\ ~(step < Len(names))
    <2>1. step' = 1 /\ pc' = next
      BY <1>4 DEF Seed, Goto
    <2> QED BY <1>1, <2>1 DEF RangeOf
  <1> QED BY <1>2, <1>3, <1>4

LEMMA TypedStep == Typed /\ [Next]_vars => Typed'
  <1> SUFFICES ASSUME Typed, [Next]_vars PROVE Typed'
    OBVIOUS
  <1> USE LifecycleAssumption
      DEF Typed, TypeOK, InRange, Goto, files, tables, process, history
  <1>1. ASSUME NEW text \in Texts, Start(text) PROVE Typed'
    BY <1>1 DEF Start, Starting
  <1>2. CASE LoadPair
    BY <1>2 DEF LoadPair, Starting
  <1>3. CASE OpenCert \/ OpenKey
    BY <1>3, FileFacts DEF OpenCert, OpenKey, Starting
  <1>4. CASE WriteCert \/ WriteKey
    <2>1. starts \in File
      BY FileFacts
    <2>2. CASE WriteCert
      BY <2>1, <2>2 DEF WriteCert, Starting
    <2>3. CASE WriteKey
      BY <2>1, <2>3, FileFacts DEF WriteKey, Starting
    <2> QED BY <1>4, <2>2, <2>3
  <1>5. CASE SeedDefaults
    BY <1>5 DEF SeedDefaults, Seeding, Starting
  <1>6. CASE SeedGroup
    <2>1. Seeding(DefaultGroups) /\ Seed(DefaultGroups, groups, "seedUsers")
      BY <1>6 DEF SeedGroup
    <2>2. step' \in Nat /\ DefaultGroups[step] \in GroupNames
      BY <2>1, TypedSeed DEF GroupNames
    <2>3. \/ pc' = "failed"
          \/ pc' = "seedUsers" /\ step' = 1
          \/ pc' = "seedGroups" /\ Seeding(DefaultGroups)'
      BY <1>6, <2>1, TypedSeed DEF SeedGroup
    <2>4. Seeding(DefaultUsers)' \/ step' # 1
      BY DEF Seeding
    <2> QED BY <1>6, <2>2, <2>3, <2>4 DEF SeedGroup, Starting
  <1>7. CASE SeedUser
    <2>1. Seeding(DefaultUsers) /\ Seed(DefaultUsers, users, "baseDN")
      BY <1>7 DEF SeedUser
    <2>2. step' \in Nat /\ DefaultUsers[step] \in UserNames
      BY <2>1, TypedSeed DEF UserNames
    <2>3. \/ pc' \in {"failed", "baseDN"}
          \/ pc' = "seedUsers" /\ Seeding(DefaultUsers)'
      BY <1>7, <2>1, TypedSeed DEF SeedUser
    <2> QED BY <1>7, <2>2, <2>3 DEF SeedUser, Starting
  <1>8. CASE InsertBaseDN
    BY <1>8 DEF InsertBaseDN, NormalizeBaseDN, DNs, Starting
  <1>9. CASE Serve
    BY <1>9 DEF Serve, FlagUsed, Starting
  <1>10. CASE Stop
    BY <1>10, FileFacts, IdleFacts DEF Stop, Starting
  <1>11. CASE ChangeAccounts
    BY <1>11 DEF ChangeAccounts
  <1>12. ASSUME NEW r \in Reqs, NEW text \in Texts, UpdateBaseDN(r, text) PROVE Typed'
    BY <1>12 DEF UpdateBaseDN, NormalizeBaseDN, DNs, Update
  <1>13. ASSUME NEW r \in Reqs, Save(r) PROVE Typed'
    BY <1>13 DEF Save, Update, Idle
  <1>14. ASSUME NEW r \in Reqs, SaveFails(r) PROVE Typed'
    BY <1>14 DEF SaveFails, NotSaved, Update, Idle
  <1>15. ASSUME NEW r \in Reqs, Apply(r) PROVE Typed'
    BY <1>15 DEF Apply, Update, Idle
  <1>16. CASE UNCHANGED vars
    BY <1>16 DEF vars, Seeding
  <1> QED BY <1>1, <1>2, <1>3, <1>4, <1>5, <1>6, <1>7, <1>8, <1>9, <1>10, <1>11,
             <1>12, <1>13, <1>14, <1>15, <1>16 DEF Next

(* Every variable keeps its type, and the process is up exactly while       *)
(* NewSettings has a base DN in memory.                                     *)
THEOREM TypeCorrect == Spec => []TypeOK
  <1>1. Typed => TypeOK
    BY DEF Typed
  <1> QED BY TypedInit, TypedStep, <1>1, PTL DEF Spec

=============================================================================
