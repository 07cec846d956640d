---------------------------- MODULE RaceBoxBleProofs ----------------------------
(***************************************************************************)
(* Proofs about RaceBoxBle for any FIFO size and any number of links,      *)
(* losses, failures and calls, the two tasks interleaving as they will.    *)
(***************************************************************************)
EXTENDS RaceBoxBle, TLAPS

(* A push keeps the FIFO within its capacity, and a drain too.              *)
LEMMA FifoBounds ==
  ASSUME fifo \in Seq(Nat), Len(fifo) <= FifoCap, NEW s \in Nat
  PROVE  /\ Append(MakeRoom, s) \in Seq(Nat) /\ Len(Append(MakeRoom, s)) <= FifoCap
         /\ fifo # <<>> => Tail(fifo) \in Seq(Nat) /\ Len(Tail(fifo)) <= FifoCap
<1>1. fifo # <<>> => Tail(fifo) \in Seq(Nat) /\ Len(Tail(fifo)) = Len(fifo) - 1
  OBVIOUS
<1>2. CASE Len(fifo) < FifoCap
  BY <1>1, <1>2, BleAssumptions DEF MakeRoom
<1>3. CASE ~(Len(fifo) < FifoCap)
  <2>1. fifo # <<>> /\ MakeRoom = Tail(fifo)
    BY <1>3, BleAssumptions DEF MakeRoom
  <2>. QED
    BY <1>1, <1>3, <2>1, BleAssumptions
<1>. QED
  BY <1>2, <1>3

(* What a push and a drain leave in the FIFO.                               *)
LEMMA FifoContents ==
  ASSUME fifo \in Seq(Nat), NEW n \in Nat, \A i \in DOMAIN fifo : fifo[i] = n,
         Len(fifo) <= FifoCap
  PROVE  /\ \A i \in DOMAIN Append(MakeRoom, n) : Append(MakeRoom, n)[i] = n
         /\ fifo # <<>> => \A i \in DOMAIN Tail(fifo) : Tail(fifo)[i] = n
<1>1. fifo # <<>> => /\ Tail(fifo) \in Seq(Nat)
                    /\ \A i \in DOMAIN Tail(fifo) : Tail(fifo)[i] = n
  OBVIOUS
<1>2. MakeRoom \in Seq(Nat) /\ \A i \in DOMAIN MakeRoom : MakeRoom[i] = n
  <2>1. CASE Len(fifo) < FifoCap
    BY <2>1 DEF MakeRoom
  <2>2. CASE ~(Len(fifo) < FifoCap)
    <3>1. fifo # <<>> /\ MakeRoom = Tail(fifo)
      BY <2>2, BleAssumptions DEF MakeRoom
    <3>. QED
      BY <1>1, <3>1
  <2>. QED
    BY <2>1, <2>2
<1>3. \A i \in DOMAIN Append(MakeRoom, n) : Append(MakeRoom, n)[i] = n
  <2>. DEFINE room == MakeRoom
  <2>1. room \in Seq(Nat) /\ \A i \in DOMAIN room : room[i] = n
    BY <1>2
  <2>. HIDE DEF room
  <2>2. \A i \in DOMAIN Append(room, n) : Append(room, n)[i] = n
    BY <2>1
  <2>. QED
    BY <2>2 DEF room
<1>. QED
  BY <1>1, <1>3

(* The flags both tasks share stay Booleans.                                *)
LEMMA FlagStep == FlagTypeOK /\ [Next]_vars => FlagTypeOK'
<1>1. FlagTypeOK /\ Update => FlagTypeOK'
  BY Zenon DEF CallUpdate, CheckConnect, TakeRequest, TakeDoConnect, DeleteStale, Connect, ConnectFails, Discover,
       DiscoverFails, FetchRx, CacheRx, MarkConnected, CheckScan, TakeScan, ForgetTarget, AskRescan, StartScan,
       Drain, Update, FlagTypeOK, flags
<1>2. FlagTypeOK /\ (Callbacks \/ Advertised \/ ForeignAdvertised \/ Notified) => FlagTypeOK'
  BY Zenon DEF LinkEnds, Unconnect, DropRx, RequestScan, AskRescan, DiscardBytes, FoundTarget, WantConnect, StopScan,
       Advertised, ForeignAdvertised, Notified, Callbacks, Host, FlagTypeOK, flags
<1>3. FlagTypeOK /\ (CallSend \/ CallDisconnect \/ WriteCommand \/ Drop \/ UNCHANGED vars) => FlagTypeOK'
  BY Zenon DEF CallSend, CallDisconnect, WriteCommand, Drop, Goto, FlagTypeOK, flags, vars
<1>. QED
  BY <1>1, <1>2, <1>3 DEF Next

(* The scan's variables stay in their types.                                *)
LEMMA ScanStep == ScanTypeOK /\ [Next]_vars => ScanTypeOK'
<1>1. ScanTypeOK /\ Update => ScanTypeOK'
  <2>1. ScanTypeOK /\ StartScan => ScanTypeOK'
    BY DEF StartScan, ScanTypeOK
  <2>2. ScanTypeOK /\ (Connect \/ ConnectFails \/ Discover) => ScanTypeOK'
    BY Zenon DEF Connect, ConnectFails, Discover, ScanTypeOK
  <2>3. Update => StartScan \/ Connect \/ ConnectFails \/ Discover \/ UNCHANGED <<scanning, reported, subscribed>>
    BY Zenon DEF Update, CallUpdate, CheckConnect, TakeRequest, DeleteStale, DiscoverFails, FetchRx, CacheRx,
                 MarkConnected, CheckScan, TakeScan, ForgetTarget, Drain, radio
  <2>4. ScanTypeOK /\ UNCHANGED <<scanning, reported, subscribed>> => ScanTypeOK'
    BY Zenon DEF ScanTypeOK
  <2>. QED
    BY <2>1, <2>2, <2>3, <2>4
<1>2. ScanTypeOK /\ (Callbacks \/ Advertised \/ ForeignAdvertised \/ Notified) => ScanTypeOK'
  BY Zenon DEF LinkEnds, Unconnect, DropRx, RequestScan, AskRescan, DiscardBytes, FoundTarget, WantConnect, StopScan,
       Advertised, ForeignAdvertised, Notified, Callbacks, Host, ScanTypeOK, radio
<1>3. ScanTypeOK /\ (CallSend \/ CallDisconnect \/ WriteCommand \/ Drop \/ UNCHANGED vars) => ScanTypeOK'
  BY Zenon DEF CallSend, CallDisconnect, WriteCommand, Drop, ScanTypeOK, radio, vars
<1>. QED
  BY <1>1, <1>2, <1>3 DEF Next

(* The link's state and number stay in their types.                         *)
LEMMA LinkStep == LinkTypeOK /\ [Next]_vars => LinkTypeOK'
<1>1. \/ UNCHANGED <<link, serial>>
      \/ link' \in {"none", "up", "lost"} /\ serial' = serial
      \/ link' = "up" /\ serial' = serial + 1
  => (LinkTypeOK => LinkTypeOK')
  BY DEF LinkTypeOK
<1>2. Connect => link' = "up" /\ serial' = serial + 1
  BY DEF Connect
<1>3. LinkTypeOK /\ (DeleteStale \/ DiscoverFails \/ CallDisconnect \/ LinkEnds \/ Drop)
        => link' \in {"none", "up", "lost"} /\ serial' = serial
  BY DEF LinkTypeOK, DeleteStale, DiscoverFails, CallDisconnect, LinkEnds, Drop, Host
<1>4. [Next]_vars => \/ Connect \/ DeleteStale \/ DiscoverFails \/ CallDisconnect \/ LinkEnds \/ Drop
                     \/ UNCHANGED <<link, serial>>
  BY Zenon DEF Next, Update, CallUpdate, CheckConnect, TakeRequest, ConnectFails, Discover, FetchRx, CacheRx,
       MarkConnected, CheckScan, TakeScan, ForgetTarget, StartScan, Drain, Callbacks, Unconnect, DropRx,
       RequestScan, DiscardBytes, FoundTarget, WantConnect, StopScan, Advertised, ForeignAdvertised, Notified,
       CallSend, WriteCommand, Host, radio, vars
<1>. QED
  BY <1>1, <1>2, <1>3, <1>4

(* What a step does to the FIFO.                                            *)
LEMMA FifoSteps ==
  [Next]_vars => \/ fifo # <<>> /\ fifo' = Tail(fifo)
                 \/ fifo' = Append(MakeRoom, serial)
                 \/ fifo' = <<>>
                 \/ fifo' = fifo
<1>1. Drain => fifo' = fifo \/ (fifo # <<>> /\ fifo' = Tail(fifo))
  BY DEF Drain
<1>2. DiscardBytes => fifo' = <<>>
  BY DEF DiscardBytes, ClearFifo
<1>3. Notified => fifo' = Append(MakeRoom, serial)
  BY DEF Notified
<1>4. [Next]_vars => Drain \/ DiscardBytes \/ Notified \/ fifo' = fifo
  BY Zenon DEF Next, Update, CallUpdate, CheckConnect, TakeRequest, DeleteStale, Connect, ConnectFails, Discover,
       DiscoverFails, FetchRx, CacheRx, MarkConnected, CheckScan, TakeScan, ForgetTarget, StartScan, Callbacks,
       LinkEnds, Unconnect, DropRx, RequestScan, FoundTarget, WantConnect, StopScan, Advertised, ForeignAdvertised,
       CallSend, WriteCommand, CallDisconnect, Drop, vars
<1>. QED
  BY <1>1, <1>2, <1>3, <1>4

(* The FIFO stays a short sequence of link numbers.                         *)
LEMMA FifoStep == FifoTypeOK /\ LinkTypeOK /\ [Next]_vars => FifoTypeOK'
<1>. SUFFICES ASSUME FifoTypeOK, LinkTypeOK, [Next]_vars PROVE FifoTypeOK'
  OBVIOUS
<1>. USE DEF FifoTypeOK, LinkTypeOK
<1>1. CASE fifo # <<>> /\ fifo' = Tail(fifo)
  BY <1>1, FifoBounds
<1>2. CASE fifo' = Append(MakeRoom, serial)
  BY <1>2, FifoBounds
<1>3. CASE fifo' = <<>>
  BY <1>3, BleAssumptions
<1>. QED
  BY <1>1, <1>2, <1>3, FifoSteps

(* Where the tasks are: the steps whose target hangs on a flag, then the rest. *)
LEMMA ControlStep ==
  mpc \in MainSteps /\ npc \in NimbleSteps /\ [Next]_vars => mpc' \in MainSteps /\ npc' \in NimbleSteps
<1>. SUFFICES ASSUME mpc \in MainSteps, npc \in NimbleSteps, [Next]_vars
              PROVE  mpc' \in MainSteps /\ npc' \in NimbleSteps
  OBVIOUS
<1>1. CASE CheckConnect \/ CheckScan \/ CallSend \/ Drain
  <2>1. mpc' \in {"take", "rescan", "forget", "drain", "write", "app"} /\ npc' = npc
    BY <1>1, Zenon DEF CheckConnect, CheckScan, CallSend, Drain, Goto
  <2>. QED
    BY <2>1 DEF MainSteps
<1>2. CASE Update \/ CallDisconnect \/ WriteCommand
  <2>1. \/ CheckConnect \/ CheckScan \/ Drain
        \/ mpc' \in {"update", "stale", "connect", "discover", "fetch", "cache", "mark", "rescan", "app",
                     "untarget", "scan", "drain"} /\ npc' = npc
    BY <1>2, Zenon DEF Update, CallUpdate, TakeRequest, DeleteStale, Connect, ConnectFails, Discover,
         DiscoverFails, FetchRx, CacheRx, MarkConnected, TakeScan, ForgetTarget, StartScan, CallDisconnect,
         WriteCommand, Goto
  <2>. QED
    BY <1>1, <2>1 DEF MainSteps
<1>3. CASE Callbacks \/ Advertised \/ ForeignAdvertised \/ Notified
  <2>1. mpc' = mpc /\ npc' \in {"idle", "down", "unlink", "ask", "clear", "found", "wanted", "stop"}
    BY <1>3, Zenon DEF Callbacks, LinkEnds, Unconnect, DropRx, RequestScan, DiscardBytes, FoundTarget,
         WantConnect, StopScan, Advertised, ForeignAdvertised, Notified, Host, main
  <2>. QED
    BY <2>1 DEF NimbleSteps
<1>4. CASE Drop \/ UNCHANGED vars
  BY <1>4, Zenon DEF Drop, main, vars
<1>. QED
  BY <1>1, <1>2, <1>3, <1>4 DEF Next

(* The characteristic's pointers stay in their types.                       *)
LEMMA RxStep == rx \in Nat /\ rxChar \in Nat /\ serial \in Nat /\ [Next]_vars => rx' \in Nat /\ rxChar' \in Nat
<1>1. FetchRx => rx' \in {serial, 0} /\ rxChar' = rxChar
  BY DEF FetchRx
<1>2. CacheRx => rx' = rx /\ rxChar' = rx
  BY DEF CacheRx
<1>3. DropRx => rx' = rx /\ rxChar' = 0
  BY DEF DropRx, Host, main
<1>4. [Next]_vars => FetchRx \/ CacheRx \/ DropRx \/ UNCHANGED <<rx, rxChar>>
  BY Zenon DEF Next, Update, CallUpdate, CheckConnect, TakeRequest, DeleteStale, Connect, ConnectFails, Discover,
       DiscoverFails, MarkConnected, CheckScan, TakeScan, ForgetTarget, StartScan, Drain, Callbacks, LinkEnds,
       Unconnect, RequestScan, DiscardBytes, FoundTarget, WantConnect, StopScan, Advertised, ForeignAdvertised,
       Notified, CallSend, WriteCommand, CallDisconnect, Drop, Host, main, vars
<1>. QED
  BY <1>1, <1>2, <1>3, <1>4

(* What a write has used stays in its type.                                 *)
LEMMA UsedStep == used \subseteq {"null", "stale", "live"} /\ [Next]_vars => used' \subseteq {"null", "stale", "live"}
<1>1. WriteCommand => \E kind \in {"null", "stale", "live"} : used' = used \cup {kind}
  <2>. SUFFICES ASSUME WriteCommand PROVE \E kind \in {"null", "stale", "live"} : used' = used \cup {kind}
    OBVIOUS
  <2>. DEFINE kind == CASE rxChar = 0 -> "null" [] rxChar # serial -> "stale" [] OTHER -> "live"
  <2>1. used' = used \cup {kind}
    BY DEF WriteCommand
  <2>2. kind \in {"null", "stale", "live"}
    OBVIOUS
  <2>. QED
    BY <2>1, <2>2, Zenon
<1>2. [Next]_vars => WriteCommand \/ used' = used
  BY Zenon DEF Next, Update, CallUpdate, CheckConnect, TakeRequest, DeleteStale, Connect, ConnectFails, Discover,
       DiscoverFails, FetchRx, CacheRx, MarkConnected, CheckScan, TakeScan, ForgetTarget, StartScan, Drain,
       Callbacks, LinkEnds, Unconnect, DropRx, RequestScan, DiscardBytes, FoundTarget, WantConnect, StopScan,
       Advertised, ForeignAdvertised, Notified, CallSend, CallDisconnect, Drop, Goto, Host, vars
<1>. QED
  BY <1>1, <1>2

(* Each step moves at most one counter, by one.                             *)
Counters == drops \in Nat /\ upsets \in Nat /\ failures \in Nat /\ foreign \in Nat /\ calls \in Nat

(* A step moves no counter by more than one.                                *)
LEMMA CounterMoves ==
  [Next]_vars => /\ drops' \in {drops, drops + 1} /\ upsets' \in {upsets, upsets + 1}
                 /\ failures' \in {failures, failures + 1} /\ foreign' \in {foreign, foreign + 1}
                 /\ calls' \in {calls, calls + 1}
<1>1. ConnectFails => failures' \in {failures, failures + 1} /\ UNCHANGED <<drops, upsets, foreign, calls>>
  BY DEF ConnectFails, Goto
<1>2. DiscoverFails => upsets' \in {upsets, upsets + 1} /\ UNCHANGED <<drops, failures, foreign, calls>>
  BY DEF DiscoverFails
<1>3. CallSend \/ CallDisconnect => calls' = calls + 1 /\ UNCHANGED <<drops, upsets, failures, foreign>>
  BY Zenon DEF CallSend, CallDisconnect, Goto
<1>4. ForeignAdvertised => foreign' = foreign + 1 /\ UNCHANGED <<drops, upsets, failures, calls>>
  BY Zenon DEF ForeignAdvertised
<1>5. Drop => /\ drops' \in {drops, drops + 1} /\ upsets' \in {upsets, upsets + 1}
              /\ UNCHANGED <<failures, foreign, calls>>
  BY DEF Drop
<1>6. [Next]_vars => \/ ConnectFails \/ DiscoverFails \/ CallSend \/ CallDisconnect \/ ForeignAdvertised \/ Drop
                     \/ UNCHANGED <<drops, upsets, failures, foreign, calls>>
  BY Zenon DEF Next, Update, CallUpdate, CheckConnect, TakeRequest, DeleteStale, Connect, Discover, FetchRx, CacheRx,
       MarkConnected, CheckScan, TakeScan, ForgetTarget, StartScan, Drain, Callbacks, LinkEnds, Unconnect, DropRx,
       RequestScan, DiscardBytes, FoundTarget, WantConnect, StopScan, Advertised, Notified, WriteCommand, Goto, Host,
       bounds, vars
<1>. QED
  BY <1>1, <1>2, <1>3, <1>4, <1>5, <1>6

(* The counters stay natural numbers.                                       *)
LEMMA CounterStep == Counters /\ [Next]_vars => Counters'
BY CounterMoves DEF Counters

(* The tasks' own variables and the counters.                               *)
LEMMA TaskStep == TaskTypeOK /\ LinkTypeOK /\ [Next]_vars => TaskTypeOK'
BY ControlStep, RxStep, UsedStep, CounterStep DEF TaskTypeOK, LinkTypeOK, Counters

(* Every step stays in the types.                                           *)
LEMMA StepTypeOK == BleTypeOK /\ [Next]_vars => BleTypeOK'
BY FlagStep, ScanStep, LinkStep, FifoStep, TaskStep DEF BleTypeOK

(* So does the initial state.                                               *)
LEMMA InitTypeOK == Init => BleTypeOK
<1>. SUFFICES ASSUME Init PROVE BleTypeOK
  OBVIOUS
<1>1. FlagTypeOK /\ ScanTypeOK
  BY DEF Init, FlagTypeOK, ScanTypeOK
<1>2. LinkTypeOK /\ FifoTypeOK
  BY BleAssumptions DEF Init, LinkTypeOK, FifoTypeOK
<1>3. TaskTypeOK
  BY DEF Init, TaskTypeOK, MainSteps, NimbleSteps
<1>. QED
  BY <1>1, <1>2, <1>3 DEF BleTypeOK

(* Every variable keeps its type, and the FIFO its capacity.                *)
THEOREM TypeCorrect == Spec => []BleTypeOK
BY InitTypeOK, StepTypeOK, PTL DEF Spec

------------------------------------------------------------------------------
(* The FIFO between two links: the disconnect callback runs only when there *)
(* is no link, and once it has run nothing is left.                         *)
Ending == npc \in {"down", "unlink", "ask", "clear"}

FrameInv ==
  /\ BleTypeOK
  /\ FramesAreOfThisLink
  /\ Ending => link = "none"
  /\ link = "none" /\ ~Ending => fifo = <<>>

(* Every step keeps the account of whose bytes are in the FIFO.             *)
LEMMA FrameStep == FrameInv /\ [Next]_vars => FrameInv'
<1>. SUFFICES ASSUME FrameInv, [Next]_vars PROVE FrameInv'
  OBVIOUS
<1>1. BleTypeOK'
  BY StepTypeOK DEF FrameInv
<1>. USE DEF FrameInv, FramesAreOfThisLink, Ending
<1>2. CASE Connect
  BY <1>1, <1>2 DEF Connect, Goto
<1>3. CASE Drain
  <2>1. UNCHANGED <<npc, link, serial>>
    BY <1>3 DEF Drain, Goto, radio
  <2>2. fifo' = fifo \/ (fifo # <<>> /\ fifo' = Tail(fifo))
    BY <1>3 DEF Drain
  <2>. QED
    BY <1>1, <2>1, <2>2, FifoContents DEF BleTypeOK, FifoTypeOK, LinkTypeOK
<1>4. CASE CallUpdate \/ CheckConnect \/ TakeRequest \/ DeleteStale \/ ConnectFails \/ Discover
           \/ DiscoverFails \/ FetchRx \/ CacheRx \/ MarkConnected \/ CheckScan \/ TakeScan
           \/ ForgetTarget \/ StartScan \/ CallSend \/ CallDisconnect \/ WriteCommand \/ Drop
           \/ UNCHANGED vars
  <2>1. UNCHANGED <<fifo, npc, serial>> /\ (link' = "none" <=> link = "none")
    BY <1>4 DEF CallUpdate, CheckConnect, TakeRequest, DeleteStale, ConnectFails, Discover,
                DiscoverFails, FetchRx, CacheRx, MarkConnected, CheckScan, TakeScan, ForgetTarget,
                StartScan, CallSend, CallDisconnect, WriteCommand, Drop, vars, Goto, radio, main
  <2>. QED
    BY <1>1, <2>1
<1>5. CASE LinkEnds \/ Unconnect \/ DropRx \/ RequestScan
  BY <1>1, <1>5 DEF LinkEnds, Unconnect, DropRx, RequestScan, Host
<1>6. CASE DiscardBytes
  BY <1>1, <1>6 DEF DiscardBytes, ClearFifo, Host
<1>7. CASE Advertised \/ ForeignAdvertised \/ FoundTarget \/ WantConnect \/ StopScan
  BY <1>1, <1>7 DEF Advertised, ForeignAdvertised, FoundTarget, WantConnect, StopScan, Host, radio
<1>8. CASE Notified
  <2>1. UNCHANGED <<npc, link, serial>> /\ link # "none" /\ fifo' = Append(MakeRoom, serial)
    BY <1>8 DEF Notified, Host
  <2>. QED
    BY <1>1, <2>1, FifoContents DEF BleTypeOK, FifoTypeOK, LinkTypeOK
<1>. QED
  BY <1>2, <1>3, <1>4, <1>5, <1>6, <1>7, <1>8 DEF Next, Update, Callbacks

(* No frame of one connection is left in the FIFO for another, for any      *)
(* number of links and losses and any interleaving of the two tasks.        *)
THEOREM FramesAreOfThisLinkHolds == Spec => []FramesAreOfThisLink
<1>1. Init => FrameInv
  BY InitTypeOK DEF Init, FrameInv, FramesAreOfThisLink, Ending
<1>2. FrameInv => FramesAreOfThisLink
  BY DEF FrameInv
<1>. QED
  BY <1>1, <1>2, FrameStep, PTL DEF Spec


------------------------------------------------------------------------------
(* The life of a link, while no set-up is disturbed.  The request to        *)
(* connect and the request to scan are flags that either task may set while *)
(* the other is about to read them; what keeps them from being mixed up is  *)
(* that the system is looking for a device, has found one, is linked to it, *)
(* or owes a scan, and never two of the last three at once.                 *)

Found == npc \in {"found", "wanted", "stop"} \/ doConnect \/ mpc \in {"take", "stale", "connect"}
Linked == link # "none" \/ npc \in {"down", "unlink", "ask"}
ScanOwed == doScan \/ mpc \in {"forget", "untarget", "scan"}

\* One at a time, and the scan finds nothing more in any of them.
Apart ==
  /\ ~(Found /\ Linked) /\ ~(Found /\ ScanOwed) /\ ~(Linked /\ ScanOwed)
  /\ Linked \/ ScanOwed => ~scanning
  /\ Found /\ scanning => reported

\* A request is taken once: what one task has set, the other has not yet read.
Handover ==
  /\ npc \in {"found", "wanted"} => ~doConnect /\ mpc \notin {"take", "stale", "connect"}
  /\ mpc = "take" => doConnect
  /\ mpc \in {"stale", "connect"} => ~doConnect
  /\ mpc \in {"untarget", "scan"} => ~doScan

\* What is known of the link by where the tasks are.
LinkKnown ==
  /\ SettingUp => link = "up"
  /\ connected => link # "none" \/ npc = "down"
  /\ Ending => link = "none"

LifeInv == Undisturbed => Apart /\ Handover /\ LinkKnown

(* The lemmas below are about these definitions.                            *)
USE DEF LifeInv, Apart, Handover, LinkKnown, Found, Linked, ScanOwed, SettingUp, Ending

(* A disturbance is not undone.                                             *)
LEMMA StaysDisturbed == BleTypeOK /\ [Next]_vars => (Undisturbed' => Undisturbed)
<1>. SUFFICES ASSUME BleTypeOK, [Next]_vars, Undisturbed' PROVE Undisturbed
  OBVIOUS
<1>1. upsets \in Nat /\ foreign \in Nat
  BY DEF BleTypeOK, TaskTypeOK
<1>2. upsets' \in {upsets, upsets + 1} /\ foreign' \in {foreign, foreign + 1}
  BY CounterMoves
<1>. QED
  BY <1>1, <1>2 DEF Undisturbed

(* The main task on its way from the request to the link.                   *)
LEMMA LifeConnect ==
  ASSUME LifeInv, Undisturbed, Undisturbed',
         CheckConnect \/ TakeRequest \/ DeleteStale \/ Connect \/ ConnectFails
  PROVE  LifeInv'
<1>1. CASE CheckConnect
  BY <1>1 DEF CheckConnect, At, Goto, flags, radio
<1>2. CASE TakeRequest
  BY <1>2 DEF TakeRequest, TakeDoConnect, At, Goto, radio
<1>3. CASE DeleteStale
  BY <1>3 DEF DeleteStale, At, Goto, flags
<1>4. CASE Connect
  BY <1>4 DEF Connect, At, Goto, flags
<1>5. CASE ConnectFails
  BY <1>5 DEF ConnectFails, AskRescan, At, Goto
<1>. QED
  BY <1>1, <1>2, <1>3, <1>4, <1>5

(* The main task while it sets the link up, which a disturbance may end.    *)
LEMMA LifeSetUp ==
  ASSUME LifeInv, Undisturbed, Undisturbed', BleTypeOK,
         Discover \/ DiscoverFails \/ FetchRx \/ CacheRx \/ MarkConnected
  PROVE  LifeInv'
<1>1. CASE Discover
  BY <1>1 DEF Discover, At, Goto, flags
<1>2. CASE DiscoverFails
  <2>1. link = "up" /\ upsets' = upsets + 1
    BY <1>2 DEF DiscoverFails, At
  <2>. QED
    BY <2>1 DEF Undisturbed, BleTypeOK, TaskTypeOK
<1>3. CASE FetchRx \/ CacheRx
  BY <1>3 DEF FetchRx, CacheRx, At, Goto, flags, radio
<1>4. CASE MarkConnected
  BY <1>4 DEF MarkConnected, At, Goto, radio
<1>. QED
  BY <1>1, <1>2, <1>3, <1>4

(* The main task on its way to the next scan, and between its calls.        *)
LEMMA LifeRescan ==
  ASSUME LifeInv, Undisturbed, Undisturbed',
         \/ CallUpdate \/ CheckScan \/ TakeScan \/ ForgetTarget \/ StartScan \/ Drain
         \/ CallSend \/ WriteCommand \/ CallDisconnect
  PROVE  LifeInv'
<1>1. CASE CallUpdate \/ CheckScan
  BY <1>1 DEF CallUpdate, CheckScan, At, Goto, flags, radio
<1>2. CASE TakeScan \/ ForgetTarget
  BY <1>2 DEF TakeScan, ForgetTarget, At, Goto, radio
<1>3. CASE StartScan
  BY <1>3 DEF StartScan, At, Goto, flags
<1>4. CASE Drain
  BY <1>4 DEF Drain, At, Goto, flags, radio
<1>5. CASE CallSend \/ WriteCommand
  BY <1>5 DEF CallSend, WriteCommand, At, Goto, flags, radio
<1>6. CASE CallDisconnect
  BY <1>6 DEF CallDisconnect, At, Goto, flags
<1>. QED
  BY <1>1, <1>2, <1>3, <1>4, <1>5, <1>6

(* The NimBLE task ends a link.                                             *)
LEMMA LifeEnds ==
  ASSUME LifeInv, Undisturbed, Undisturbed',
         LinkEnds \/ Unconnect \/ DropRx \/ RequestScan \/ DiscardBytes
  PROVE  LifeInv'
<1>1. CASE LinkEnds \/ DropRx \/ DiscardBytes
  BY <1>1 DEF LinkEnds, DropRx, DiscardBytes, Host, flags, main
<1>2. CASE Unconnect
  BY <1>2 DEF Unconnect, Host, main
<1>3. CASE RequestScan
  BY <1>3 DEF RequestScan, AskRescan, Host, main
<1>. QED
  BY <1>1, <1>2, <1>3

(* The NimBLE task finds the device, hears from it, or loses it.            *)
LEMMA LifeFound ==
  ASSUME LifeInv, Undisturbed, Undisturbed', BleTypeOK,
         Advertised \/ FoundTarget \/ WantConnect \/ StopScan \/ ForeignAdvertised \/ Notified \/ Drop
  PROVE  LifeInv'
<1>1. CASE Advertised
  BY <1>1 DEF Advertised, Host, flags, main
<1>2. CASE FoundTarget
  BY <1>2 DEF FoundTarget, Host, main
<1>3. CASE WantConnect
  BY <1>3 DEF WantConnect, Host, main
<1>4. CASE StopScan \/ Notified
  BY <1>4 DEF StopScan, Notified, Host, flags, main
<1>5. CASE ForeignAdvertised
  BY <1>5 DEF ForeignAdvertised, Undisturbed, BleTypeOK, TaskTypeOK
<1>6. CASE Drop
  <2>1. UNCHANGED <<flags, main, npc, scanning, reported>> /\ link = "up" /\ link' = "lost"
    BY <1>6 DEF Drop
  <2>2. CASE ~SettingUp
    BY <2>1, <2>2 DEF flags, main
  <2>3. CASE SettingUp
    BY <1>6, <2>3 DEF Drop, Undisturbed, BleTypeOK, TaskTypeOK
  <2>. QED
    BY <2>2, <2>3
<1>. QED
  BY <1>1, <1>2, <1>3, <1>4, <1>5, <1>6

(* Every step keeps the account of the client's life.                       *)
LEMMA LifeStep == BleTypeOK /\ LifeInv /\ [Next]_vars => LifeInv'
<1>. SUFFICES ASSUME BleTypeOK, LifeInv, [Next]_vars, Undisturbed' PROVE LifeInv'
  OBVIOUS
<1>1. Undisturbed
  BY StaysDisturbed
<1>2. CASE UNCHANGED vars
  BY <1>2 DEF vars, flags, main, radio, bounds, Undisturbed
<1>3. CASE Update
  BY <1>1, <1>3, LifeConnect, LifeSetUp, LifeRescan DEF Update
<1>4. CASE Callbacks
  BY <1>1, <1>4, LifeEnds, LifeFound DEF Callbacks
<1>5. CASE CallSend \/ WriteCommand \/ CallDisconnect \/ Advertised \/ ForeignAdvertised \/ Notified \/ Drop
  BY <1>1, <1>5, LifeRescan, LifeFound
<1>. QED
  BY <1>2, <1>3, <1>4, <1>5 DEF Next

HIDE DEF LifeInv, Apart, Handover, LinkKnown, Found, Linked, ScanOwed, SettingUp, Ending

(* While no set-up was disturbed the system is in one phase at a time, over *)
(* any number of links, losses, failed connections and calls.               *)
THEOREM LifeInvariant == Spec => []LifeInv
<1>1. Init => LifeInv
  BY DEF Init, LifeInv, Apart, Handover, LinkKnown, Found, Linked, ScanOwed, SettingUp, Ending
<1>. QED
  BY <1>1, LifeStep, TypeCorrect, PTL DEF Spec

(* update() deletes no client whose link is up: it goes that way only on a  *)
(* request that a device found by the scan has left, and the scan finds     *)
(* nothing while there is a link.                                           *)
THEOREM LiveClientIsKeptHolds == Spec => []LiveClientIsKept
<1>1. LifeInv => LiveClientIsKept
  BY DEF LiveClientIsKept, At, LifeInv, Apart, Found, Linked
<1>. QED
  BY <1>1, LifeInvariant, PTL

(* isConnected() is true at rest only of a link that is there.              *)
THEOREM ConnectedMeansLinkedHolds == Spec => []ConnectedMeansLinked
<1>1. LifeInv => ConnectedMeansLinked
  BY DEF ConnectedMeansLinked, At, LifeInv, LinkKnown
<1>. QED
  BY <1>1, LifeInvariant, PTL

================================================================================
