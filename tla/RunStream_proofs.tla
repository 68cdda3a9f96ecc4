--------------------------- MODULE RunStream_proofs ---------------------------
(***************************************************************************)
(* Proofs about RunStream for logs of any length and any number of dropped *)
(* connections: the page applies the log in order, and gives up its        *)
(* EventSource only at the first event that ends the run.                  *)
(***************************************************************************)
EXTENDS RunStream, SequenceTheorems, TLAPS

StreamTyped ==
    /\ status \in RunStatus \cup {"absent", "lost"}
    /\ len \in Nat
    /\ status = "absent" => len = 0
    /\ ending \in Nat
    /\ generator \in {"none", "top", "yield", "wait", "returned"}
    /\ cursor \in Nat /\ upto \in Nat
    /\ wire \in Seq(Nat)
    /\ source \in {"none", "open", "reconnecting", "closed", "failed", "left"}
    /\ applied \in Seq(Nat)

\* Without an open EventSource no response is served and nothing is under way;
\* with one the server knows the run, and the cursor is inside its log.
Served ==
    /\ source # "open" => generator = "none" /\ wire = <<>>
    /\ source = "open" => status \in RunStatus /\ cursor <= upto /\ upto <= len

\* What is under way are the last events yielded, one after the other, and
\* all events yielded before them are applied.
InTransit ==
    /\ \A i \in 1..Len(wire) : wire[i] + Len(wire) = cursor + i
    /\ source = "open" => cursor <= Len(applied) + Len(wire)

\* A page connects after its run was created, and applies nothing before.
NotYet ==
    /\ source = "none" => applied = <<>>
    /\ source # "none" => status # "absent"

\* A run that ended says so in its last event, or in the one before run.failed;
\* until the page has closed there it has applied only events before.
EndAhead ==
    /\ Finished =>
        /\ ending >= 1
        /\ ending = len \/ (ending = len - 1 /\ status = "failed")
    /\ Finished /\ source # "closed" => Len(applied) < ending

StreamInv ==
    /\ StreamTyped /\ Served /\ InTransit /\ NotYet /\ EndAhead
    /\ AppliedInOrder /\ ClosesComplete

-------------------------------------------------------------------------------
\* What the run does to its log.

\* The log of a known run only grows, and not after its end, which it tells in
\* one of the events it grows by; it is forgotten as a whole.
LogGrows ==
    /\ status' \in RunStatus \cup {"absent", "lost"} /\ len' \in Nat /\ ending' \in Nat
    /\ status' # "absent"
    /\ status \in RunStatus => status' \in RunStatus
    /\ status # "lost" => status' # "lost" /\ len <= len'
    /\ Finished => UNCHANGED run
    /\ ~Finished /\ Finished' =>
        /\ ending' > len
        /\ ending' = len' \/ (ending' = len' - 1 /\ status' = "failed")
    /\ status = "lost" => status' = "lost"

\* Every step of the run but its loss.
LEMMA RunStepGrows == ASSUME StreamTyped, RunStep PROVE LogGrows
BY BatchAssumption
DEF StreamTyped, RunStep, LogGrows, Progress, Pause, Resume, Create, Complete, Cancel, Fail,
    RunStatus, TERMINAL_STATUSES, Finished, run

\* The last event the page has applied is its number of events.
LEMMA LastIsLength == ASSUME StreamTyped, AppliedInOrder PROVE lastSequence = Len(applied)
BY DEF StreamTyped, AppliedInOrder, lastSequence
-------------------------------------------------------------------------------
\* One lemma per step.

\* A page that applies nothing new stays in order while its log grows.
LEMMA RunStepKeeps == ASSUME StreamInv, RunStep PROVE StreamInv'
<1> USE DEF StreamInv
<1>1. LogGrows
  BY RunStepGrows
<1>2. UNCHANGED <<generator, cursor, upto, wire, source, applied>>
  BY DEF RunStep, server
<1>3. StreamTyped' /\ InTransit' /\ NotYet'
  BY <1>1, <1>2 DEF StreamTyped, LogGrows, InTransit, NotYet
<1>4. Served'
  BY <1>1, <1>2 DEF StreamTyped, LogGrows, Served, RunStatus, TERMINAL_STATUSES
<1>5. EndAhead' /\ AppliedInOrder'
  <2>1. CASE Finished
    BY <1>1, <1>2, <2>1 DEF LogGrows, EndAhead, AppliedInOrder, Finished, run
  <2>2. CASE ~Finished
    <3>1. source # "closed" \/ status = "lost"
      BY <2>2 DEF ClosesComplete
    <3>2. Finished' => Len(applied) <= len /\ source # "closed"
      BY <1>1, <3>1 DEF LogGrows, AppliedInOrder, Finished, TERMINAL_STATUSES
    <3>3. /\ len \in Nat /\ Len(applied) \in Nat /\ applied' = applied
          /\ source' = source /\ ending' \in Nat
      BY <1>1, <1>2 DEF StreamTyped, LogGrows
    <3>4. ASSUME Finished'
          PROVE  /\ Len(applied') < ending' /\ ending' >= 1
                 /\ ending' = len' \/ (ending' = len' - 1 /\ status' = "failed")
      <4>1. /\ ending' > len
            /\ ending' = len' \/ (ending' = len' - 1 /\ status' = "failed")
        BY <1>1, <2>2, <3>4 DEF LogGrows
      <4>2. Len(applied) <= len
        BY <3>2, <3>4
      <4> QED BY <3>3, <4>1, <4>2
    <3>5. /\ \A i \in 1..Len(applied') : applied'[i] = i
          /\ status' # "lost" => Len(applied') <= len'
      BY <1>1, <3>3 DEF LogGrows, AppliedInOrder
    <3> QED BY <3>2, <3>3, <3>4, <3>5 DEF EndAhead, AppliedInOrder
  <2> QED BY <2>1, <2>2
<1>6. ClosesComplete'
  BY <1>1, <1>2 DEF LogGrows, ClosesComplete, lastSequence, Finished, run
<1> QED BY <1>3, <1>4, <1>5, <1>6

\* A restart takes the log and the open response with it.
LEMMA RestartKeeps == ASSUME StreamInv, ServerRestarts PROVE StreamInv'
<1> USE DEF StreamInv
<1>1. /\ status' = "lost" /\ len' = 0 /\ ending' = 0 /\ generator' = "none" /\ wire' = <<>>
      /\ source' = (IF source = "open" THEN "reconnecting" ELSE source)
      /\ UNCHANGED <<cursor, upto, applied>>
  BY DEF ServerRestarts, Lose
<1>2. StreamTyped' /\ Served' /\ InTransit' /\ NotYet'
  BY <1>1 DEF StreamTyped, Served, InTransit, NotYet, RunStatus, TERMINAL_STATUSES
<1>3. EndAhead' /\ AppliedInOrder' /\ ClosesComplete'
  BY <1>1
  DEF EndAhead, AppliedInOrder, ClosesComplete, StreamTyped, Finished, RunStatus,
      TERMINAL_STATUSES
<1> QED BY <1>2, <1>3

\* The steps that leave the page and what is under way alone.
LEMMA GeneratorKeeps == ASSUME StreamInv, Snapshot \/ AfterYields \/ Wake PROVE StreamInv'
<1> USE DEF StreamInv
<1>1. UNCHANGED <<run, cursor, wire, source, applied>>
  BY DEF Snapshot, AfterYields, Wake
<1>2. generator # "none" /\ generator' \in {"top", "yield", "wait", "returned"}
  BY DEF Snapshot, AfterYields, Wake
<1>3. upto' = upto \/ upto' = len
  BY DEF Snapshot, AfterYields, Wake
<1>4. source = "open" /\ cursor <= len
  BY <1>2 DEF Served, StreamTyped
<1>5. StreamTyped' /\ Served' /\ InTransit' /\ NotYet'
  BY <1>1, <1>2, <1>3, <1>4 DEF StreamTyped, Served, InTransit, NotYet, run
<1>6. EndAhead' /\ AppliedInOrder' /\ ClosesComplete'
  BY <1>1 DEF EndAhead, AppliedInOrder, ClosesComplete, run, Finished, lastSequence
<1> QED BY <1>5, <1>6

\* The next event of the snapshot is sent after the ones before it.
LEMMA YieldKeeps == ASSUME StreamInv, Yield PROVE StreamInv'
<1> USE DEF StreamInv
<1>1. /\ UNCHANGED <<run, generator, upto, source, applied>>
      /\ generator = "yield" /\ cursor < upto
      /\ cursor' = cursor + 1 /\ wire' = Append(wire, cursor + 1)
  BY DEF Yield
<1>2. source = "open"
  BY <1>1 DEF Served
<1>3. /\ wire' \in Seq(Nat) /\ Len(wire') = Len(wire) + 1
      /\ \A i \in 1..Len(wire) : wire'[i] = wire[i]
      /\ wire'[Len(wire) + 1] = cursor + 1
  BY <1>1 DEF StreamTyped
<1>4. StreamTyped' /\ Served' /\ NotYet'
  BY <1>1, <1>2, <1>3 DEF StreamTyped, Served, NotYet, run
<1>5. ASSUME NEW i \in 1..Len(wire') PROVE wire'[i] + Len(wire') = cursor' + i
  <2>1. Len(wire) \in Nat /\ cursor \in Nat
    BY DEF StreamTyped
  <2>2. CASE i \in 1..Len(wire)
    <3>1. wire[i] \in Nat /\ wire[i] + Len(wire) = cursor + i
      BY <2>2 DEF InTransit, StreamTyped
    <3>2. i \in Nat /\ wire'[i] = wire[i]
      BY <1>3, <2>2
    <3>3. cursor' = cursor + 1 /\ Len(wire') = Len(wire) + 1
      BY <1>1, <1>3
    <3> QED BY <2>1, <3>1, <3>2, <3>3
  <2>3. CASE i = Len(wire) + 1
    BY <1>1, <1>3, <2>1, <2>3
  <2> QED BY <1>3, <2>1, <2>2, <2>3
<1>6. InTransit'
  BY <1>1, <1>2, <1>3, <1>5 DEF InTransit, StreamTyped
<1>7. EndAhead' /\ AppliedInOrder' /\ ClosesComplete'
  BY <1>1 DEF EndAhead, AppliedInOrder, ClosesComplete, run, Finished, lastSequence
<1> QED BY <1>4, <1>6, <1>7

\* The page connects, for the first time or again: from the first event.
LEMMA ConnectKeeps == ASSUME StreamInv, Connect \/ Reconnect PROVE StreamInv'
<1> USE DEF StreamInv
<1>1. /\ UNCHANGED <<run, wire, applied>> /\ source \in {"none", "reconnecting"}
      /\ source = "none" => status \in RunStatus
      /\ \/ source' = "failed" /\ status = "lost" /\ UNCHANGED <<generator, cursor, upto>>
         \/ source' = "open" /\ status # "lost" /\ generator' = "top" /\ cursor' = 0
                /\ upto' = 0
  BY DEF Connect, Reconnect, server, RunStatus, TERMINAL_STATUSES
<1>2. wire = <<>> /\ generator = "none"
  BY <1>1 DEF Served
<1>3. status' \in RunStatus \/ (source' = "failed" /\ status' = "lost")
  BY <1>1 DEF NotYet, StreamTyped, run, RunStatus, TERMINAL_STATUSES
<1>4. /\ StreamTyped /\ InTransit /\ wire' = <<>> /\ Len(<<>>) = 0
      /\ generator' \in {"none", "top"} /\ cursor' \in Nat /\ upto' \in Nat
  BY <1>1, <1>2 DEF StreamTyped, run
<1>5. StreamTyped' /\ NotYet'
  BY <1>1, <1>3, <1>4 DEF StreamTyped, NotYet, run, RunStatus, TERMINAL_STATUSES
<1>6. Served' /\ InTransit'
  <2>1. CASE source' = "failed"
    BY <1>1, <1>2, <1>4, <2>1 DEF Served, InTransit
  <2>2. CASE source' = "open"
    BY <1>1, <1>3, <1>4, <2>2 DEF Served, InTransit, StreamTyped, run
  <2> QED BY <1>1, <2>1, <2>2
<1>7. EndAhead' /\ AppliedInOrder' /\ ClosesComplete'
  BY <1>1 DEF EndAhead, AppliedInOrder, ClosesComplete, Finished, run
<1> QED BY <1>5, <1>6, <1>7

\* A connection ends without the page having closed it, or is left.
LEMMA DisconnectKeeps ==
    ASSUME StreamInv, ResponseEnds \/ Drop \/ Leave PROVE StreamInv'
<1> USE DEF StreamInv
<1>1. /\ UNCHANGED <<run, cursor, upto, applied>>
      /\ wire' = <<>> /\ generator' = "none" /\ source' \in {"reconnecting", "left"}
      /\ source \notin {"none", "closed"}
  BY DEF ResponseEnds, Drop, Leave, Served
<1>2. StreamTyped' /\ Served' /\ InTransit' /\ NotYet'
  BY <1>1 DEF StreamTyped, Served, InTransit, NotYet, run
<1>3. EndAhead' /\ AppliedInOrder' /\ ClosesComplete'
  BY <1>1 DEF EndAhead, AppliedInOrder, ClosesComplete, Finished, run
<1> QED BY <1>2, <1>3

\* An event arrives: it is the next one, or one that was applied already.
LEMMA DeliverKeeps == ASSUME StreamInv, Deliver PROVE StreamInv'
<1> USE DEF StreamInv
<1> DEFINE sequence == Head(wire)
<1>1. /\ wire # <<>> /\ UNCHANGED <<run, cursor, upto>> /\ applied' = Reduce(sequence)
      /\ \/ IsTerminal(sequence) /\ source' = "closed" /\ generator' = "none" /\ wire' = <<>>
         \/ ~IsTerminal(sequence) /\ wire' = Tail(wire) /\ UNCHANGED <<source, generator>>
  BY DEF Deliver
<1>2. source = "open" /\ status # "lost"
  BY <1>1 DEF Served, RunStatus, TERMINAL_STATUSES
<1>3. sequence = wire[1] /\ 1 \in 1..Len(wire) /\ Len(wire) \in Nat
  BY <1>1 DEF StreamTyped
<1>4. sequence \in Nat /\ sequence + Len(wire) = cursor + 1
  BY <1>3 DEF StreamTyped, InTransit
<1>5. sequence <= Len(applied) + 1 /\ sequence <= len
  BY <1>2, <1>3, <1>4 DEF StreamTyped, Served, InTransit
<1>6. \/ sequence <= Len(applied) /\ applied' = applied
      \/ sequence = Len(applied) + 1 /\ applied' = Append(applied, Len(applied) + 1)
  BY <1>1, <1>4, <1>5, LastIsLength DEF Reduce, StreamTyped
<1>7. /\ applied' \in Seq(Nat) /\ sequence <= Len(applied') /\ Len(applied') <= len
      /\ Len(applied) <= Len(applied')
      /\ Len(applied') = Len(applied) \/ Len(applied') = sequence
      /\ \A i \in 1..Len(applied') : applied'[i] = i
  <2>1. /\ applied \in Seq(Nat) /\ Len(applied) \in Nat /\ len \in Nat
        /\ Len(applied) <= len /\ \A i \in 1..Len(applied) : applied[i] = i
    BY <1>2 DEF StreamTyped, AppliedInOrder
  <2>2. CASE sequence <= Len(applied) /\ applied' = applied
    BY <2>1, <2>2
  <2>3. CASE sequence = Len(applied) + 1 /\ applied' = Append(applied, Len(applied) + 1)
    <3>1. /\ applied' \in Seq(Nat) /\ Len(applied') = Len(applied) + 1
          /\ \A i \in 1..Len(applied) : applied'[i] = applied[i]
          /\ applied'[Len(applied) + 1] = Len(applied) + 1
      BY <2>1, <2>3
    <3> QED BY <1>5, <2>1, <2>3, <3>1
  <2> QED BY <1>6, <2>2, <2>3
<1>8. Finished => /\ ending \in Nat /\ Len(applied) < ending
                  /\ ending = len \/ (ending = len - 1 /\ status = "failed")
  BY <1>2 DEF EndAhead, StreamTyped
<1>9. AppliedInOrder'
  <2>1. Finished => Len(applied') <= ending
    BY <1>4, <1>5, <1>7, <1>8
  <2> QED BY <1>1, <1>7, <2>1 DEF AppliedInOrder, run, Finished
<1> HIDE DEF sequence
<1>10. CASE IsTerminal(sequence) /\ source' = "closed" /\ generator' = "none" /\ wire' = <<>>
  <2>1. StreamTyped' /\ Served' /\ InTransit' /\ NotYet'
    BY <1>1, <1>7, <1>10 DEF StreamTyped, Served, InTransit, NotYet, run
  <2>2. lastSequence' = Len(applied')
    BY <1>7 DEF lastSequence
  <2>3. Len(applied') = ending /\ Finished
    <3>1. Finished /\ sequence >= ending
      BY <1>10 DEF IsTerminal
    <3>2. Len(applied) \in Nat /\ Len(applied') \in Nat /\ ending \in Nat
      BY <1>7 DEF StreamTyped
    <3> QED BY <1>4, <1>5, <1>7, <1>8, <3>1, <3>2
  <2>4. ClosesComplete'
    BY <1>1, <1>8, <1>10, <2>2, <2>3 DEF ClosesComplete, run, Finished
  <2>5. EndAhead'
    BY <1>1, <1>10 DEF EndAhead, run, Finished
  <2> QED BY <1>9, <2>1, <2>4, <2>5
<1>11. CASE ~IsTerminal(sequence) /\ wire' = Tail(wire) /\ UNCHANGED <<source, generator>>
  <2>1. /\ wire' \in Seq(Nat) /\ Len(wire') = Len(wire) - 1
        /\ \A i \in 1..Len(wire') : wire'[i] = wire[i + 1]
    BY <1>1, <1>11 DEF StreamTyped
  <2>2. StreamTyped' /\ Served' /\ NotYet' /\ ClosesComplete'
    BY <1>1, <1>2, <1>7, <1>11, <2>1
    DEF StreamTyped, Served, NotYet, ClosesComplete, run
  <2>3. ASSUME NEW i \in 1..Len(wire') PROVE wire'[i] + Len(wire') = cursor' + i
    <3>1. i + 1 \in 1..Len(wire)
      BY <1>3, <2>1
    <3>2. wire[i + 1] + Len(wire) = cursor + (i + 1) /\ wire[i + 1] \in Nat
      BY <3>1 DEF InTransit, StreamTyped
    <3>3. cursor \in Nat /\ cursor' = cursor /\ i \in Nat /\ wire'[i] = wire[i + 1]
      BY <1>1, <2>1 DEF StreamTyped
    <3>4. Len(wire) \in Nat /\ Len(wire') = Len(wire) - 1
      BY <1>1, <2>1 DEF StreamTyped
    <3> QED BY <3>2, <3>3, <3>4
  <2>4. cursor' <= Len(applied') + Len(wire')
    BY <1>1, <1>3, <1>4, <1>7, <2>1 DEF StreamTyped
  <2>5. InTransit'
    BY <2>3, <2>4 DEF InTransit
  <2>6. Finished => Len(applied') < ending
    <3>1. Finished => sequence < ending
      BY <1>4, <1>8, <1>11 DEF IsTerminal
    <3> QED BY <1>7, <1>8, <3>1
  <2>7. EndAhead'
    BY <1>1, <2>6 DEF EndAhead, run, Finished
  <2> QED BY <1>9, <2>2, <2>5, <2>7
<1> QED BY <1>1, <1>10, <1>11

-------------------------------------------------------------------------------
\* The invariant.

\* Before anything happened.
LEMMA StreamInitOK == StreamInit => StreamInv
BY DEF StreamInit, Init, StreamInv, StreamTyped, Served, InTransit, NotYet, AppliedInOrder,
       ClosesComplete, EndAhead, Finished, TERMINAL_STATUSES

\* Every step keeps it.
LEMMA StreamNextOK == StreamInv /\ [StreamNext]_streamVars => StreamInv'
<1> SUFFICES ASSUME StreamInv, [StreamNext]_streamVars PROVE StreamInv'
  OBVIOUS
<1>1. CASE UNCHANGED streamVars
  BY <1>1
  DEF streamVars, run, server, StreamInv, StreamTyped, Served, InTransit, NotYet,
      EndAhead, AppliedInOrder, ClosesComplete, lastSequence, Finished
<1>2. CASE StreamNext
  BY <1>2, RunStepKeeps, RestartKeeps, GeneratorKeeps, YieldKeeps, ConnectKeeps,
     DisconnectKeeps, DeliverKeeps
  DEF StreamNext, ServerStep, PageStep
<1> QED BY <1>1, <1>2

\* It holds in every behaviour.
LEMMA StreamInvariance == StreamSpec => []StreamInv
BY StreamInitOK, StreamNextOK, PTL DEF StreamSpec

(***************************************************************************)
(* Whatever drops, reconnections and replays happen, the reducer of the    *)
(* page applies the events of the log in order, each once, none left out,  *)
(* and none after the first that ends the run.                             *)
(***************************************************************************)
THEOREM PageAppliesLogInOrder == StreamSpec => []AppliedInOrder
<1>1. StreamInv => AppliedInOrder
  BY DEF StreamInv
<1> QED BY <1>1, StreamInvariance, PTL

(***************************************************************************)
(* A page that has closed its EventSource stands at the first event that   *)
(* ends the run (connect in TalentChatPage.tsx closes on a terminal type): *)
(* it misses at most the run.failed that follows an event whose record()   *)
(* raised.                                                                 *)
(***************************************************************************)
THEOREM PageClosesAtTheEnd == StreamSpec => []ClosesComplete
<1>1. StreamInv => ClosesComplete
  BY DEF StreamInv
<1> QED BY <1>1, StreamInvariance, PTL
===============================================================================
