--------------------------- MODULE ShutdownProofs ---------------------------
(***************************************************************************)
(* Proofs about the process's start and end, for any number of listeners,  *)
(* any order in which they are started and any bound on what they serve.   *)
(*                                                                         *)
(* The invariant follows each listener from one list to the next: not      *)
(* started, its loop has not run; started, its socket may be open and its  *)
(* requests in progress; shut down, neither, unless the deadline passed.   *)
(***************************************************************************)
EXTENDS Shutdown, FiniteSetTheorems, SequenceTheorems, TLAPS

USE ShutdownAssumption

Distinct(s) == \A i, j \in DOMAIN s : s[i] = s[j] => i = j

(* Listeners not started yet.                                              *)
Fresh == Distinct(todo) /\ \A i \in DOMAIN todo : loop[todo[i]] = "none"

(* Listeners started and not shut down.                                    *)
Sockets ==
    /\ open \subseteq ToSet(shutdowns)
    /\ pc = "drain" => shutdowns # <<>> /\ Last(shutdowns) \notin open

(* Listeners shut down.                                                    *)
Quiet == late \/ \A l \in HTTP \ ToSet(shutdowns) : busy[l] = 0

Joined == shutdowns = <<>> /\ \A l \in Listener : Gone(l)

Phases ==
    /\ pc \in {"new", "listen"} => status = "none"
    /\ pc = "new" => store = "none"
    /\ pc = "return" => StartFailed \/ Joined
    /\ store = "closed" => pc \in {"return", "exited"} /\ (StartFailed \/ Joined)
    /\ ~caught /\ pc # "exited" => todo = <<>>

Reported == \E l \in Listener : loop[l] = "reported"

Told ==
    /\ errCh > 0 => Reported
    /\ status = "0" => signalled
    /\ status = "1" => (pc = "exited" /\ store = "none") \/ StartFailed \/ Reported

Inv == TypeOK /\ Fresh /\ Sockets /\ Quiet /\ Phases /\ Told

-----------------------------------------------------------------------------
LEMMA AppendTo ==
    ASSUME NEW S, NEW s \in Seq(S), NEW e \in S
    PROVE  Append(s, e) \in Seq(S) /\ ToSet(Append(s, e)) = ToSet(s) \cup {e}
  <1>1. /\ Len(Append(s, e)) = Len(s) + 1 /\ Len(s) \in Nat
        /\ DOMAIN s = 1..Len(s) /\ DOMAIN Append(s, e) = 1..(Len(s) + 1)
        /\ \A i \in 1..Len(s) : Append(s, e)[i] = s[i]
        /\ Append(s, e)[Len(s) + 1] = e
    OBVIOUS
  <1>2. 1..(Len(s) + 1) = 1..Len(s) \cup {Len(s) + 1}
    BY <1>1
  <1> QED BY <1>1, <1>2 DEF ToSet

LEMMA FrontLast ==
    ASSUME NEW S, NEW s \in Seq(S), s # <<>>
    PROVE  /\ Front(s) \in Seq(S) /\ Last(s) \in S
           /\ ToSet(s) = ToSet(Front(s)) \cup {Last(s)}
  <1>1. Len(s) \in Nat /\ Len(s) > 0 /\ DOMAIN s = 1..Len(s)
    OBVIOUS
  <1>2. /\ Front(s) \in Seq(S) /\ DOMAIN Front(s) = 1..(Len(s) - 1)
        /\ \A i \in 1..(Len(s) - 1) : Front(s)[i] = s[i]
    BY <1>1 DEF Front
  <1>3. 1..Len(s) = 1..(Len(s) - 1) \cup {Len(s)}
    BY <1>1
  <1> QED BY <1>1, <1>2, <1>3 DEF ToSet, Last

LEMMA TailOf ==
    ASSUME NEW S, NEW s \in Seq(S), s # <<>>
    PROVE  /\ Head(s) \in S /\ Head(s) = s[1] /\ 1 \in DOMAIN s
           /\ Tail(s) \in Seq(S) /\ Len(Tail(s)) = Len(s) - 1
           /\ \A i \in DOMAIN Tail(s) :
                 i \in Nat \ {0} /\ i + 1 \in DOMAIN s /\ Tail(s)[i] = s[i + 1]
  OBVIOUS

LEMMA InitInv == Init => Inv
  <1> SUFFICES ASSUME Init PROVE Inv
    OBVIOUS
  <1>1. todo \in Seq(Listener) /\ Distinct(todo)
    BY DEF Init, Distinct
  <1>2. TypeOK
    <2>1. shutdowns \in Seq(Listener)
      BY EmptySeq DEF Init
    <2>2. loop \in [Listener -> {"none", "accepting", "failed", "reported", "ended"}]
      BY DEF Init
    <2>3. errCh \in 0..ErrCapacity /\ busy \in [Listener -> 0..MaxBusy]
      BY DEF Init
    <2> QED BY <1>1, <2>1, <2>2, <2>3 DEF Init, TypeOK
  <1>3. Fresh
    BY <1>1 DEF Init, Fresh
  <1>4. Sockets /\ Quiet
    BY DEF Init, Sockets, Quiet
  <1>5. Phases /\ Told
    BY DEF Init, Phases, Told
  <1> QED BY <1>2, <1>3, <1>4, <1>5 DEF Inv

-----------------------------------------------------------------------------
(* The step that moves a listener from the first list to the second.       *)
LEMMA ListenStep == Inv /\ Listen => Inv'
  <1> SUFFICES ASSUME Inv, Listen PROVE Inv'
    OBVIOUS
  <1> USE DEF Inv, signals
  <1>1. /\ Head(todo) \in Listener /\ Head(todo) = todo[1] /\ 1 \in DOMAIN todo
        /\ Tail(todo) \in Seq(Listener)
        /\ \A i \in DOMAIN Tail(todo) :
              /\ i \in Nat \ {0} /\ i + 1 \in DOMAIN todo
              /\ Tail(todo)[i] = todo[i + 1]
    BY TailOf DEF Listen, TypeOK
  <1>2. /\ shutdowns' \in Seq(Listener)
        /\ ToSet(shutdowns') = ToSet(shutdowns) \cup {Head(todo)}
    BY <1>1, AppendTo DEF Listen, TypeOK
  <1>3. TypeOK'
    BY <1>1, <1>2 DEF Listen, TypeOK
  <1>4. loop[Head(todo)] = "none"
    BY <1>1 DEF Fresh
  <1>5. Fresh'
    <2>1. \A i \in DOMAIN Tail(todo) : Tail(todo)[i] # Head(todo)
      BY <1>1 DEF Fresh, Distinct
    <2>2. \A i \in DOMAIN todo' : loop'[todo'[i]] = "none"
      BY <1>1, <2>1 DEF Fresh, Listen, TypeOK
    <2>3. Distinct(todo')
      BY <1>1 DEF Fresh, Distinct, Listen
    <2> QED BY <2>2, <2>3 DEF Fresh
  <1>6. Sockets'
    BY <1>2 DEF Sockets, Listen
  <1>7. Quiet'
    BY <1>2 DEF Quiet, Listen
  <1>8. Phases'
    BY <1>1 DEF Phases, Listen, TypeOK
  <1>9. Told'
    <2>1. Reported => Reported'
      BY <1>4 DEF Reported, Listen, TypeOK
    <2> QED BY <2>1 DEF Told, Phases, Listen
  <1> QED BY <1>3, <1>5, <1>6, <1>7, <1>8, <1>9

LEMMA CloseListenerStep == Inv /\ CloseListener => Inv'
  <1> SUFFICES ASSUME Inv, CloseListener PROVE Inv'
    OBVIOUS
  <1> USE DEF Inv, signals
  <1>1. TypeOK' /\ Fresh' /\ Sockets' /\ Quiet'
    BY DEF CloseListener, TypeOK, Fresh, Sockets, Quiet
  <1>2. Phases' /\ Told'
    BY DEF CloseListener, TypeOK, Phases, Told, StartFailed, Joined, Gone, Reported
  <1> QED BY <1>1, <1>2

LEMMA DrainStep == Inv /\ Drain => Inv'
  <1> SUFFICES ASSUME Inv, Drain PROVE Inv'
    OBVIOUS
  <1> USE DEF Inv
  <1>1. /\ shutdowns' \in Seq(Listener)
        /\ ToSet(shutdowns) = ToSet(shutdowns') \cup {Last(shutdowns)}
    BY FrontLast DEF Drain, TypeOK, Sockets
  <1>2. TypeOK' /\ Fresh'
    BY <1>1 DEF Drain, TypeOK, Fresh, accepting, signals
  <1>3. Sockets'
    BY <1>1 DEF Drain, Sockets, accepting
  <1>4. Quiet'
    BY <1>1 DEF Drain, Drained, Quiet
  <1>5. Phases' /\ Told'
    BY DEF Drain, TypeOK, Phases, Told, StartFailed, Joined, Gone, Reported,
           accepting, signals
  <1> QED BY <1>2, <1>3, <1>4, <1>5

LEMMA NewStep == Inv /\ New => Inv'
  <1> SUFFICES ASSUME Inv, New PROVE Inv'
    OBVIOUS
  <1> USE DEF Inv, New, accepting, signals
  <1>1. TypeOK' /\ Fresh' /\ Sockets' /\ Quiet'
    BY DEF TypeOK, Fresh, Sockets, Quiet
  <1>2. Phases' /\ Told'
    BY DEF TypeOK, Phases, Told, StartFailed, Joined, Gone, Reported
  <1> QED BY <1>1, <1>2

LEMMA ListenFailsStep == Inv /\ ListenFails => Inv'
  <1> SUFFICES ASSUME Inv, ListenFails PROVE Inv'
    OBVIOUS
  <1> USE DEF Inv, ListenFails, accepting, signals
  <1>1. TypeOK' /\ Fresh' /\ Sockets' /\ Quiet'
    BY DEF TypeOK, Fresh, Sockets, Quiet
  <1>2. Phases' /\ Told'
    BY DEF TypeOK, Phases, Told, StartFailed, Joined, Gone, Reported
  <1> QED BY <1>1, <1>2

LEMMA TakeSignalStep == Inv /\ TakeSignal => Inv'
  <1> SUFFICES ASSUME Inv, TakeSignal PROVE Inv'
    OBVIOUS
  <1> USE DEF Inv, TakeSignal, accepting, signals
  <1>1. TypeOK' /\ Fresh' /\ Sockets' /\ Quiet'
    BY DEF TypeOK, Fresh, Sockets, Quiet
  <1>2. Phases' /\ Told'
    BY DEF TypeOK, Phases, Told, StartFailed, Joined, Gone, Reported
  <1> QED BY <1>1, <1>2

LEMMA TakeErrorStep == Inv /\ TakeError => Inv'
  <1> SUFFICES ASSUME Inv, TakeError PROVE Inv'
    OBVIOUS
  <1> USE DEF Inv, TakeError, ErrorStatus
  <1>1. errCh' \in 0..ErrCapacity
    BY DEF TypeOK
  <1>2. TypeOK'
    BY <1>1 DEF TypeOK
  <1>3. Fresh' /\ Sockets' /\ Quiet'
    BY DEF Fresh, Sockets, Quiet
  <1>4. Phases' /\ Told'
    BY DEF TypeOK, Phases, Told, StartFailed, Joined, Gone, Reported
  <1> QED BY <1>2, <1>3, <1>4

LEMMA JoinStep == Inv /\ Join => Inv'
  <1> SUFFICES ASSUME Inv, Join PROVE Inv'
    OBVIOUS
  <1> USE DEF Inv, Join, accepting, signals
  <1>1. TypeOK' /\ Fresh' /\ Sockets' /\ Quiet'
    BY DEF TypeOK, Fresh, Sockets, Quiet
  <1>2. Phases' /\ Told'
    BY DEF TypeOK, Phases, Told, StartFailed, Joined, Gone, Reported
  <1> QED BY <1>1, <1>2

LEMMA CloseStoreStep == Inv /\ CloseStore => Inv'
  <1> SUFFICES ASSUME Inv, CloseStore PROVE Inv'
    OBVIOUS
  <1> USE DEF Inv, CloseStore, accepting, signals
  <1>1. TypeOK' /\ Fresh' /\ Sockets' /\ Quiet'
    BY DEF TypeOK, Fresh, Sockets, Quiet
  <1>2. Phases' /\ Told'
    BY DEF TypeOK, Phases, Told, StartFailed, Joined, Gone, Reported
  <1> QED BY <1>1, <1>2

LEMMA ExitStep == Inv /\ Exit => Inv'
  <1> SUFFICES ASSUME Inv, Exit PROVE Inv'
    OBVIOUS
  <1> USE DEF Inv, Exit, accepting, signals
  <1>1. TypeOK' /\ Fresh' /\ Sockets' /\ Quiet'
    BY DEF TypeOK, Fresh, Sockets, Quiet
  <1>2. Phases' /\ Told'
    BY DEF TypeOK, Phases, Told, StartFailed, Joined, Gone, Reported
  <1> QED BY <1>1, <1>2

-----------------------------------------------------------------------------
(* The accepting goroutines, what they serve, signals and time.            *)
LEMMA LoopFailsStep == ASSUME Inv, NEW l \in Listener, LoopFails(l) PROVE Inv'
  <1> USE DEF Inv, LoopFails, main, accepting, signals
  <1>1. TypeOK'
    BY DEF TypeOK
  <1>2. Fresh'
    BY DEF TypeOK, Fresh
  <1>3. Sockets' /\ Quiet'
    BY DEF TypeOK, Sockets, Quiet
  <1>4. Phases'
    BY DEF TypeOK, Phases, StartFailed, Joined, Gone
  <1>5. Told'
    BY DEF TypeOK, Told, StartFailed, Reported
  <1> QED BY <1>1, <1>2, <1>3, <1>4, <1>5

LEMMA SendErrorStep == ASSUME Inv, NEW l \in Listener, SendError(l) PROVE Inv'
  <1> USE DEF Inv, SendError, main, accepting, signals
  <1>1. TypeOK'
    <2>1. errCh' \in 0..ErrCapacity
      BY DEF TypeOK, Room
    <2> QED BY <2>1 DEF TypeOK
  <1>2. Fresh'
    BY DEF TypeOK, Fresh
  <1>3. Sockets' /\ Quiet'
    BY DEF TypeOK, Sockets, Quiet
  <1>4. Phases'
    BY DEF TypeOK, Phases, StartFailed, Joined, Gone
  <1>5. Told'
    BY DEF TypeOK, Told, StartFailed, Reported
  <1> QED BY <1>1, <1>2, <1>3, <1>4, <1>5

LEMMA LoopEndsStep == ASSUME Inv, NEW l \in Listener, LoopEnds(l) PROVE Inv'
  <1> USE DEF Inv, LoopEnds, main, accepting, signals
  <1>1. TypeOK'
    BY DEF TypeOK
  <1>2. Fresh'
    BY DEF TypeOK, Fresh
  <1>3. Sockets' /\ Quiet'
    BY DEF TypeOK, Sockets, Quiet
  <1>4. Phases'
    BY DEF TypeOK, Phases, StartFailed, Joined, Gone
  <1>5. Told'
    BY DEF TypeOK, Told, StartFailed, Reported
  <1> QED BY <1>1, <1>2, <1>3, <1>4, <1>5

LEMMA BeginStep == ASSUME Inv, NEW l \in Listener, Begin(l) PROVE Inv'
  <1> USE DEF Inv, Begin, main, accepting, signals
  <1>1. TypeOK'
    BY DEF TypeOK
  <1>2. Fresh'
    BY DEF TypeOK, Fresh
  <1>3. Sockets' /\ Quiet'
    BY DEF TypeOK, Sockets, Quiet, Served
  <1>4. Phases'
    BY DEF TypeOK, Phases, StartFailed, Joined, Gone
  <1>5. Told'
    BY DEF TypeOK, Told, StartFailed, Reported
  <1> QED BY <1>1, <1>2, <1>3, <1>4, <1>5

LEMMA EndStep == ASSUME Inv, NEW l \in Listener, End(l) PROVE Inv'
  <1> USE DEF Inv, End, main, accepting, signals
  <1>1. TypeOK'
    BY DEF TypeOK
  <1>2. Fresh'
    BY DEF TypeOK, Fresh
  <1>3. Sockets' /\ Quiet'
    BY DEF TypeOK, Sockets, Quiet
  <1>4. Phases'
    BY DEF TypeOK, Phases, StartFailed, Joined, Gone
  <1>5. Told'
    BY DEF TypeOK, Told, StartFailed, Reported
  <1> QED BY <1>1, <1>2, <1>3, <1>4, <1>5

LEMMA SignalStep == Inv /\ Signal => Inv'
  <1> SUFFICES ASSUME Inv, Signal PROVE Inv'
    OBVIOUS
  <1> USE DEF Inv, Signal, Running, main, accepting, signals
  <1>1. TypeOK' /\ Fresh' /\ Sockets' /\ Quiet'
    BY DEF TypeOK, Fresh, Sockets, Quiet
  <1>2. CASE caught
    BY <1>1, <1>2 DEF Phases, Told, StartFailed, Joined, Gone, Reported
  <1>3. CASE ~caught
    <2>1. store = "closed" => Joined
      BY <1>3 DEF Phases, StartFailed
    <2>2. Phases'
      BY <1>3, <2>1 DEF Phases, StartFailed, Joined, Gone
    <2>3. Told'
      BY <1>3 DEF Told, Reported
    <2> QED BY <1>1, <2>2, <2>3
  <1> QED BY <1>2, <1>3

LEMMA DeadlineStep == Inv /\ Deadline => Inv'
  <1> SUFFICES ASSUME Inv, Deadline PROVE Inv'
    OBVIOUS
  <1> USE DEF Inv, Deadline, main, accepting, signals
  <1>1. TypeOK' /\ Fresh' /\ Sockets' /\ Quiet'
    BY DEF TypeOK, Fresh, Sockets, Quiet
  <1>2. Phases' /\ Told'
    BY DEF TypeOK, Phases, Told, StartFailed, Joined, Gone, Reported
  <1> QED BY <1>1, <1>2

LEMMA StutterInv == Inv /\ UNCHANGED vars => Inv'
  BY DEF vars, main, accepting, signals, Inv, TypeOK, Fresh, Sockets, Quiet,
         Phases, Told, StartFailed, Joined, Gone, Reported

LEMMA StepInv == Inv /\ [Next]_vars => Inv'
  BY NewStep, ListenStep, ListenFailsStep, TakeSignalStep, TakeErrorStep,
     CloseListenerStep, DrainStep, JoinStep, CloseStoreStep, ExitStep,
     LoopFailsStep, SendErrorStep, LoopEndsStep, BeginStep, EndStep,
     SignalStep, DeadlineStep, StutterInv DEF Next, Main

LEMMA Invariance == Spec => []Inv
  <1>1. Init => Inv
    BY InitInv
  <1>2. Inv /\ [Next]_vars => Inv'
    BY StepInv
  <1> QED BY <1>1, <1>2, PTL DEF Spec

-----------------------------------------------------------------------------
(* Every variable keeps to its type: in particular errCh to its capacity.  *)
THEOREM TypeCorrect == Spec => []TypeOK
  <1>1. Inv => TypeOK
    BY DEF Inv
  <1> QED BY <1>1, Invariance, PTL

(* run's deferred Close comes after shutdownAll and wg.Wait: no listener   *)
(* accepts, and no HTTP request in time is in progress.                    *)
THEOREM ClosedLast == Spec => []StoreClosedLast
  <1>1. Inv => StoreClosedLast
    <2> SUFFICES ASSUME Inv, store = "closed", ~StartFailed
                 PROVE  /\ open = {} /\ \A l \in Listener : Gone(l)
                        /\ late \/ \A l \in HTTP : busy[l] = 0
      BY DEF StoreClosedLast
    <2>1. Joined
      BY DEF Inv, Phases
    <2>2. ToSet(shutdowns) = {}
      BY <2>1 DEF Joined, ToSet
    <2> QED BY <2>1, <2>2 DEF Joined, Inv, Sockets, Quiet
  <1> QED BY <1>1, Invariance, PTL

(* What run returns, which main turns into the exit status.                *)
THEOREM StatusIsTold == Spec => []StatusTells
  <1>1. Inv => StatusTells
    BY DEF Inv, Told, Reported, StatusTells
  <1> QED BY <1>1, Invariance, PTL

-----------------------------------------------------------------------------
(* The goroutines that have run, and those that have sent their error.     *)
Started == {l \in Listener : loop[l] # "none"}
Senders == {l \in Listener : loop[l] = "reported"}

Counted ==
    /\ IsFiniteSet(Started) /\ Cardinality(Started) + Len(todo) <= ErrCapacity
    /\ errCh <= Cardinality(Senders)

LEMMA Sizes ==
    ASSUME IsFiniteSet(Started)
    PROVE  /\ Cardinality(Started) \in Nat /\ Senders \subseteq Started
           /\ IsFiniteSet(Senders) /\ Cardinality(Senders) \in Nat
  <1>1. Senders \subseteq Started
    BY DEF Senders, Started
  <1> QED BY <1>1, FS_Subset, FS_CardinalityType

LEMMA CountedInit == Init => Counted
  <1> SUFFICES ASSUME Init PROVE Counted
    OBVIOUS
  <1>1. Started = {} /\ Senders = {}
    BY DEF Init, Started, Senders
  <1>2. IsFiniteSet({}) /\ Cardinality({}) = 0
    BY FS_EmptySet
  <1>3. Len(todo) \in Nat /\ Len(todo) <= ErrCapacity
    BY DEF Init
  <1> QED BY <1>1, <1>2, <1>3 DEF Counted, Init

LEMMA CountedListen == Inv /\ Counted /\ Listen => Counted'
  <1> SUFFICES ASSUME Inv, Counted, Listen PROVE Counted'
    OBVIOUS
  <1>1. Head(todo) \in Listener /\ loop[Head(todo)] = "none" /\ Len(todo') = Len(todo) - 1
    BY TailOf DEF Inv, TypeOK, Fresh, Listen
  <1>2. /\ Started' = Started \cup {Head(todo)} /\ Head(todo) \notin Started
        /\ Senders' = Senders
    BY <1>1 DEF Listen, Started, Senders, Inv, TypeOK
  <1>3. /\ IsFiniteSet(Started') /\ Cardinality(Started) \in Nat
        /\ Cardinality(Started') = Cardinality(Started) + 1
    BY <1>2, FS_AddElement, FS_CardinalityType DEF Counted
  <1>4. Len(todo) \in Nat /\ errCh' = errCh
    BY DEF Inv, TypeOK, Listen
  <1> QED BY <1>1, <1>2, <1>3, <1>4 DEF Counted

LEMMA CountedSend == ASSUME Inv, Counted, NEW l \in Listener, SendError(l) PROVE Counted'
  <1>1. /\ Started' = Started /\ l \notin Senders
        /\ Senders' = Senders \cup {l} /\ todo' = todo
    BY DEF SendError, Started, Senders, Inv, TypeOK, main
  <1>2. IsFiniteSet(Senders) /\ Cardinality(Senders) \in Nat
    BY Sizes DEF Counted
  <1>3. Cardinality(Senders') = Cardinality(Senders) + 1
    BY <1>1, <1>2, FS_AddElement
  <1>4. errCh \in Nat /\ errCh' = errCh + 1
    BY DEF SendError, Inv, TypeOK
  <1> QED BY <1>1, <1>2, <1>3, <1>4 DEF Counted

LEMMA CountedTake == Inv /\ Counted /\ TakeError => Counted'
  <1> SUFFICES ASSUME Inv, Counted, TakeError PROVE Counted'
    OBVIOUS
  <1>1. /\ Started' = Started /\ Senders' = Senders /\ todo' = todo
        /\ errCh' = errCh - 1 /\ errCh \in Nat
    BY DEF TakeError, Started, Senders, Inv, TypeOK
  <1>2. Cardinality(Senders) \in Nat
    BY Sizes DEF Counted
  <1> QED BY <1>1, <1>2 DEF Counted

LEMMA CountedLoop ==
    ASSUME Inv, Counted, NEW l \in Listener, LoopFails(l) \/ LoopEnds(l)
    PROVE  Counted'
  <1>1. Started' = Started /\ Senders' = Senders
    BY DEF LoopFails, LoopEnds, Started, Senders, Inv, TypeOK
  <1>2. todo' = todo /\ errCh' = errCh
    BY DEF LoopFails, LoopEnds, main
  <1> QED BY <1>1, <1>2 DEF Counted

LEMMA CountedUnchanged ==
    ASSUME Counted, UNCHANGED <<todo, loop, errCh>>
    PROVE  Counted'
  BY DEF Counted, Started, Senders

LEMMA CountedStep == Inv /\ Counted /\ [Next]_vars => Counted'
  <1> SUFFICES ASSUME Inv, Counted, [Next]_vars PROVE Counted'
    OBVIOUS
  <1>1. CASE New \/ ListenFails \/ TakeSignal \/ CloseListener \/ Drain \/ Join
             \/ CloseStore \/ Exit
    BY <1>1, CountedUnchanged
    DEF New, ListenFails, TakeSignal, CloseListener, Drain, Join, CloseStore, Exit,
        accepting
  <1>2. CASE Listen
    BY <1>2, CountedListen
  <1>3. CASE TakeError
    BY <1>3, CountedTake
  <1>4. ASSUME NEW l \in Listener, LoopFails(l) \/ LoopEnds(l) PROVE Counted'
    BY <1>4, CountedLoop
  <1>5. ASSUME NEW l \in Listener, SendError(l) PROVE Counted'
    BY <1>5, CountedSend
  <1>6. ASSUME NEW l \in Listener, Begin(l) \/ End(l) PROVE Counted'
    BY <1>6, CountedUnchanged DEF Begin, End, main, accepting
  <1>7. CASE Signal \/ Deadline
    BY <1>7, CountedUnchanged DEF Signal, Deadline, main, accepting
  <1>8. CASE UNCHANGED vars
    BY <1>8, CountedUnchanged DEF vars, main, accepting
  <1> QED BY <1>1, <1>2, <1>3, <1>4, <1>5, <1>6, <1>7, <1>8 DEF Next, Main

(* errCh has room for every error when it comes: no goroutine waits for    *)
(* main to receive, while main, in wg.Wait, waits for the goroutine.       *)
THEOREM RoomForEveryError == Spec => [](\A l \in Listener : loop[l] = "failed" => Room)
  <1> DEFINE NeverWaits == \A l \in Listener : loop[l] = "failed" => Room
  <1>1. Init => Inv /\ Counted
    BY InitInv, CountedInit
  <1>2. Inv /\ Counted /\ [Next]_vars => (Inv /\ Counted)'
    BY StepInv, CountedStep
  <1>3. Inv /\ Counted => NeverWaits
    <2> SUFFICES ASSUME Inv, Counted, NEW l \in Listener, loop[l] = "failed"
                 PROVE  errCh < ErrCapacity
      BY DEF Room
    <2>1. l \in Started /\ l \notin Senders
      BY DEF Started, Senders
    <2>2. /\ Senders \subseteq Started
          /\ Cardinality(Senders) \in Nat /\ Cardinality(Started) \in Nat
      BY Sizes DEF Counted
    <2>3. Cardinality(Senders) < Cardinality(Started)
      BY <2>1, <2>2, FS_Subset DEF Counted
    <2>4. Len(todo) \in Nat /\ errCh \in Nat
      BY DEF Inv, TypeOK
    <2> QED BY <2>2, <2>3, <2>4 DEF Counted
  <1> HIDE DEF NeverWaits
  <1>4. Spec => []NeverWaits
    BY <1>1, <1>2, <1>3, PTL DEF Spec
  <1> QED BY <1>4 DEF NeverWaits

=============================================================================
