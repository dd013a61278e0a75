--------------------------- MODULE ReadLoopProofs ----------------------------
(***************************************************************************)
(* The connection test's read loop for every depth of the send queue,      *)
(* every number of completions to a poll, wherever the reads land.         *)
(***************************************************************************)
EXTENDS ReadLoop, TLAPS

\* The minimum of two counts, by cases.
LEMMA LeastFacts ==
  ASSUME NEW a \in Nat, NEW b \in Nat \ {0}
  PROVE  /\ a - Least(a, b) \in Nat
         /\ a - Least(a, b) <= a
         /\ a # 0 => a - Least(a, b) < a
BY SMT DEF Least

\* The greater of two counts, by cases.
LEMMA GreatestFacts ==
  ASSUME NEW a \in Nat, NEW b \in Nat
  PROVE  /\ Greatest(a, b) \in {a, b}
         /\ Greatest(a, b) >= a /\ Greatest(a, b) >= b
BY SMT DEF Greatest

-----------------------------------------------------------------------------
\* Types, with the one bound the queue gives: what is on its way and what waits to be
\* polled share the send queue.
Occupied == inflight + unreaped <= MAX_SEND_WR

Typed == TypeOK /\ inflight \in Nat /\ unreaped \in Nat /\ lag \in Nat /\ Occupied

\* The types hold before the first read.
LEMMA TypedInit == Init => Typed
<1> SUFFICES ASSUME Init PROVE Typed
  OBVIOUS
<1>1. /\ inflight \in 0 .. MAX_SEND_WR /\ unreaped \in 0 .. MAX_SEND_WR
      /\ lag \in 0 .. MAX_SEND_WR /\ lag \in Nat
      /\ inflight \in Nat /\ unreaped \in Nat
      /\ inflight + unreaped <= MAX_SEND_WR
  BY ReadAssumption, SMT DEF Init
<1> QED BY <1>1 DEF Init, Typed, TypeOK, Content, Occupied

\* Every step of the loop, the adapter and the invoker keeps them.
LEMMA TypedStep == Typed /\ [Next]_vars => Typed'
<1> SUFFICES ASSUME Typed, [Next]_vars PROVE Typed'
  OBVIOUS
<1> USE ReadAssumption DEF Typed, TypeOK, Content, Occupied
<1>1. CASE PostRead
  BY <1>1, SMT DEF PostRead, SendRoom, invVars
<1>2. CASE PostFails
  BY <1>2, SMT DEF PostFails, wireVars, invVars
<1>3. CASE Compare
  BY <1>3, SMT DEF Compare, wireVars, invVars
<1>4. CASE Show
  BY <1>4, SMT DEF Show, wireVars, invVars
<1>5. CASE Flush
  BY <1>5, SMT DEF Flush, wireVars, invVars
<1>6. CASE Poll
  <2>1. /\ unreaped - Least(unreaped, num_wc) \in Nat
        /\ unreaped - Least(unreaped, num_wc) <= unreaped
    BY LeastFacts
  <2> QED BY <1>6, <2>1, SMT DEF Poll, invVars
<1>7. CASE SleepOver
  <2>1. Greatest(lag, inflight) \in {lag, inflight}
    BY GreatestFacts
  <2> QED BY <1>7, <2>1, SMT DEF SleepOver, wireVars, invVars
<1>8. CASE Land
  <2>1. /\ inflight - 1 \in 0 .. MAX_SEND_WR /\ inflight - 1 \in Nat
        /\ unreaped + 1 \in 0 .. MAX_SEND_WR /\ unreaped + 1 \in Nat
        /\ inflight - 1 + (unreaped + 1) <= MAX_SEND_WR
    BY <1>8, SMT DEF Land
  <2>2. /\ UNCHANGED <<cpc, stop, printed, lag, broken, ipc, mem>>
        /\ buf' = mem /\ fetched' = mem /\ shown' = FALSE /\ gap' \in BOOLEAN
        /\ inflight' = inflight - 1 /\ unreaped' = unreaped + 1
    BY <1>8, Zenon DEF Land, invVars
  <2> QED BY <2>1, <2>2, ZenonT(30)
<1>9. CASE LandFails
  BY <1>9, SMT DEF LandFails, contVars, invVars
<1>10. CASE LinkBreaks
  BY <1>10, SMT DEF LinkBreaks, contVars, invVars
<1>11. CASE MessageBegin
  BY <1>11, SMT DEF MessageBegin, contVars, wireVars
<1>12. CASE MessageEnd
  BY <1>12, SMT DEF MessageEnd, contVars, wireVars
<1>13. CASE UNCHANGED vars
  BY <1>13, SMT DEF vars, contVars, wireVars, invVars
<1> QED
  BY <1>1, <1>2, <1>3, <1>4, <1>5, <1>6, <1>7, <1>8, <1>9, <1>10, <1>11, <1>12, <1>13
  DEF Next, Controller, Network, Invoker

\* They hold in every state.
LEMMA TypedHolds == Spec => []Typed
BY TypedInit, TypedStep, PTL DEF Spec

\* The state has its types, and the counts of reads never leave the send queue's size,
\* for every depth of the queue (controller.cpp:76, 91).
THEOREM TypesHold == Spec => []TypeOK
<1>1. Typed => TypeOK
  BY DEF Typed
<1> QED BY <1>1, TypedHolds, PTL

-----------------------------------------------------------------------------
\* Room in the send queue.

\* When a read is posted at most lag reads are unfinished and at most lag + 1 places
\* taken; each turn of the loop takes one and gives one back if it can.
Room ==
  /\ cpc = "exit" => lag + 1 >= MAX_SEND_WR
  /\ cpc = "post" => inflight <= lag /\ inflight + unreaped <= lag + 1
  /\ cpc \in {"compare", "show", "flush", "poll"} =>
       inflight <= lag + 1 /\ inflight + unreaped <= lag + 2
  /\ cpc \in {"sleep", "clean"} => inflight + unreaped <= lag + 1

\* Every step keeps that room in the send queue.
LEMMA RoomStep == Typed /\ Room /\ [Next]_vars => Room'
<1> SUFFICES ASSUME Typed, Room, [Next]_vars PROVE Room'
  OBVIOUS
<1> USE ReadAssumption DEF Typed, TypeOK, Room
<1>1. CASE PostRead
  BY <1>1, SMT DEF PostRead
<1>2. CASE PostFails
  BY <1>2, SMT DEF PostFails, SendRoom, wireVars
<1>3. CASE Compare
  BY <1>3, SMT DEF Compare, wireVars
<1>4. CASE Show
  BY <1>4, SMT DEF Show, wireVars
<1>5. CASE Flush
  BY <1>5, SMT DEF Flush, wireVars
<1>6. CASE Poll
  <2>1. /\ unreaped - Least(unreaped, num_wc) \in Nat
        /\ unreaped - Least(unreaped, num_wc) <= unreaped
        /\ unreaped # 0 => unreaped - Least(unreaped, num_wc) < unreaped
    BY LeastFacts
  <2> QED BY <1>6, <2>1, SMT DEF Poll
<1>7. CASE SleepOver
  <2>1. Greatest(lag, inflight) >= lag /\ Greatest(lag, inflight) >= inflight
    BY GreatestFacts
  <2>2. Greatest(lag, inflight) \in Nat
    BY GreatestFacts
  <2> QED BY <1>7, <2>1, <2>2, SMT DEF SleepOver, wireVars
<1>8. CASE Land
  BY <1>8, SMT DEF Land
<1>9. CASE LandFails
  BY <1>9, SMT DEF LandFails, contVars
<1>10. CASE LinkBreaks
  BY <1>10, SMT DEF LinkBreaks, contVars
<1>11. CASE MessageBegin
  BY <1>11, SMT DEF MessageBegin, contVars, wireVars
<1>12. CASE MessageEnd
  BY <1>12, SMT DEF MessageEnd, contVars, wireVars
<1>13. CASE UNCHANGED vars
  BY <1>13, SMT DEF vars, contVars, wireVars
<1> QED
  BY <1>1, <1>2, <1>3, <1>4, <1>5, <1>6, <1>7, <1>8, <1>9, <1>10, <1>11, <1>12, <1>13
  DEF Next, Controller, Network, Invoker

\* The program stops with "read failure" only if a sleep of a second ended with all but
\* one place of the send queue, or more, full of unfinished reads; not when the
\* connection breaks, and not for completions left unpolled (controller.cpp:76-79, 91).
THEOREM ReadsNeverRefusedHolds == Spec => []ReadsNeverRefused
<1>1. Init => Room
  BY ReadAssumption, SMT DEF Init, Room
<1>2. Typed /\ Room => ReadsNeverRefused
  BY ReadAssumption, SMT DEF Typed, Room, ReadsNeverRefused
<1>3. Typed /\ Room /\ [Next]_vars => Room'
  BY RoomStep
<1> QED BY <1>1, <1>2, <1>3, TypedHolds, PTL DEF Spec

-----------------------------------------------------------------------------
\* One line to one read.

\* The invoker's memory never holds the text the loop overwrites its buffer with, and
\* once a read was shown the buffer holds something else as soon as it is overwritten.
Fetches == mem # Flushed /\ fetched # Flushed

Overwritten == Fetches /\ (shown /\ cpc # "flush" => buf # fetched)

\* Every step keeps a shown read out of the buffer once it is overwritten.
LEMMA OverwrittenStep == Overwritten /\ [Next]_vars => Overwritten'
<1> SUFFICES ASSUME Overwritten, [Next]_vars PROVE Overwritten'
  OBVIOUS
<1> USE ReadAssumption DEF Overwritten, Fetches
<1>1. CASE PostRead
  BY <1>1 DEF PostRead, invVars
<1>2. CASE PostFails
  BY <1>2 DEF PostFails, wireVars, invVars
<1>3. CASE Compare
  BY <1>3 DEF Compare, wireVars, invVars
<1>4. CASE Show
  BY <1>4 DEF Show, wireVars, invVars
<1>5. CASE Flush
  BY <1>5 DEF Flush, wireVars, invVars
<1>6. CASE Poll
  BY <1>6 DEF Poll, invVars
<1>7. CASE SleepOver
  BY <1>7 DEF SleepOver, wireVars, invVars
<1>8. CASE Land
  BY <1>8 DEF Land, invVars
<1>9. CASE LandFails
  BY <1>9 DEF LandFails, contVars, invVars
<1>10. CASE LinkBreaks
  BY <1>10 DEF LinkBreaks, contVars, invVars
<1>11. CASE MessageBegin
  BY <1>11 DEF MessageBegin, contVars, wireVars
<1>12. CASE MessageEnd
  BY <1>12 DEF MessageEnd, contVars, wireVars
<1>13. CASE UNCHANGED vars
  BY <1>13 DEF vars, contVars, wireVars, invVars
<1> QED
  BY <1>1, <1>2, <1>3, <1>4, <1>5, <1>6, <1>7, <1>8, <1>9, <1>10, <1>11, <1>12, <1>13
  DEF Next, Controller, Network, Invoker

\* No read is shown by two lines, wherever in the loop reads land (controller.cpp:86-87).
THEOREM ShownOnceHolds == Spec => ShownOnce
<1>1. Init => Overwritten
  BY ReadAssumption DEF Init, Overwritten, Fetches
<1>2. Overwritten /\ [Next]_vars => [Show /\ shown => printed' # fetched]_vars
  <2> SUFFICES ASSUME Overwritten, Show, shown PROVE printed' # fetched
    OBVIOUS
  <2>1. cpc = "show" /\ printed' = buf
    BY DEF Show
  <2> QED BY <2>1 DEF Overwritten
<1> QED BY <1>1, <1>2, OverwrittenStep, PTL DEF Spec, ShownOnce

-----------------------------------------------------------------------------
\* What MessageSeen rests on: the loop goes on, and the line shows what came in time.

\* Nobody writes the text that ends the loop.
NobodySaysEnd == END_MSG \notin {INIT_MSG, Flushed, Message, Torn}

\* So it is never in either buffer, and the loop never ends of itself.
NoEnd == mem # END_MSG /\ buf # END_MSG /\ ~stop /\ cpc # "clean"

\* The loop neither ends nor stops, unless a post is refused.
LoopGoesOn == cpc \in {"post", "compare", "show", "flush", "poll", "sleep"} \/ lag + 2 > MAX_SEND_WR

\* What the last read brought is overwritten without having been shown only if it landed
\* between the line and the strcpy.
LostInGap == [][Flush /\ fetched # None => shown \/ gap]_vars

\* A read that lands elsewhere stays in the buffer until it is shown.
Kept == fetched # None /\ ~shown /\ ~gap => buf = fetched /\ cpc # "flush"

\* No step brings the end.
LEMMA NoEndStep ==
  ASSUME NobodySaysEnd
  PROVE  NoEnd /\ [Next]_vars => NoEnd'
<1> SUFFICES ASSUME NoEnd, [Next]_vars PROVE NoEnd'
  OBVIOUS
<1> USE DEF NoEnd, NobodySaysEnd
<1>1. CASE PostRead
  BY <1>1 DEF PostRead, contVars, wireVars, invVars
<1>2. CASE PostFails
  BY <1>2 DEF PostFails, contVars, wireVars, invVars
<1>3. CASE Compare
  BY <1>3 DEF Compare, contVars, wireVars, invVars
<1>4. CASE Show
  BY <1>4 DEF Show, contVars, wireVars, invVars
<1>5. CASE Flush
  BY <1>5 DEF Flush, contVars, wireVars, invVars
<1>6. CASE Poll
  BY <1>6 DEF Poll, contVars, wireVars, invVars
<1>7. CASE SleepOver
  BY <1>7 DEF SleepOver, contVars, wireVars, invVars
<1>8. CASE Land
  BY <1>8 DEF Land, contVars, wireVars, invVars
<1>9. CASE LandFails
  BY <1>9 DEF LandFails, contVars, wireVars, invVars
<1>10. CASE LinkBreaks
  BY <1>10 DEF LinkBreaks, contVars, wireVars, invVars
<1>11. CASE MessageBegin
  BY <1>11 DEF MessageBegin, contVars, wireVars, invVars
<1>12. CASE MessageEnd
  BY <1>12 DEF MessageEnd, contVars, wireVars, invVars
<1>13. CASE UNCHANGED vars
  BY <1>13 DEF vars, contVars, wireVars, invVars
<1> QED
  BY <1>1, <1>2, <1>3, <1>4, <1>5, <1>6, <1>7, <1>8, <1>9, <1>10, <1>11, <1>12, <1>13
  DEF Next, Controller, Network, Invoker

\* Every step keeps what came until it is shown.
LEMMA KeptStep == Kept /\ [Next]_vars => Kept'
<1> SUFFICES ASSUME Kept, [Next]_vars PROVE Kept'
  OBVIOUS
<1> USE ReadAssumption DEF Kept
<1>1. CASE PostRead
  BY <1>1 DEF PostRead, contVars, wireVars, invVars
<1>2. CASE PostFails
  BY <1>2 DEF PostFails, contVars, wireVars, invVars
<1>3. CASE Compare
  BY <1>3 DEF Compare, contVars, wireVars, invVars
<1>4. CASE Show
  BY <1>4 DEF Show, contVars, wireVars, invVars
<1>5. CASE Flush
  BY <1>5 DEF Flush, contVars, wireVars, invVars
<1>6. CASE Poll
  BY <1>6 DEF Poll, contVars, wireVars, invVars
<1>7. CASE SleepOver
  BY <1>7 DEF SleepOver, contVars, wireVars, invVars
<1>8. CASE Land
  BY <1>8 DEF Land, contVars, wireVars, invVars
<1>9. CASE LandFails
  BY <1>9 DEF LandFails, contVars, wireVars, invVars
<1>10. CASE LinkBreaks
  BY <1>10 DEF LinkBreaks, contVars, wireVars, invVars
<1>11. CASE MessageBegin
  BY <1>11 DEF MessageBegin, contVars, wireVars, invVars
<1>12. CASE MessageEnd
  BY <1>12 DEF MessageEnd, contVars, wireVars, invVars
<1>13. CASE UNCHANGED vars
  BY <1>13 DEF vars, contVars, wireVars, invVars
<1> QED
  BY <1>1, <1>2, <1>3, <1>4, <1>5, <1>6, <1>7, <1>8, <1>9, <1>10, <1>11, <1>12, <1>13
  DEF Next, Controller, Network, Invoker

\* The loop never ends of itself, broken connection included, but only when a post is
\* refused for the lag ReadsNeverRefused names; and a read is lost to the overwriting
\* only if it landed between the line and the strcpy (controller.cpp:76-94).
THEOREM LoopGoesOnHolds ==
  ASSUME NobodySaysEnd
  PROVE  Spec => []LoopGoesOn /\ LostInGap
<1>1. Init => NoEnd /\ Kept
  BY DEF Init, NoEnd, Kept, NobodySaysEnd
<1>2. Typed /\ NoEnd /\ ReadsNeverRefused => LoopGoesOn
  BY DEF Typed, TypeOK, NoEnd, ReadsNeverRefused, LoopGoesOn
<1>3. Kept /\ [Next]_vars => [Flush /\ fetched # None => shown \/ gap]_vars
  BY DEF Kept, Flush
<1> QED BY <1>1, <1>2, <1>3, NoEndStep, KeptStep, TypedHolds, ReadsNeverRefusedHolds, PTL
        DEF Spec, LostInGap
=============================================================================
