--------------------------- MODULE AuditQueueProofs ---------------------------
(* Proofs about AuditQueue, for every set of events and every capacity: the  *)
(* pipeline implements AuditLedger, loses nothing without a count, and its   *)
(* drain tells of a loss.                                                    *)
EXTENDS AuditQueue, FiniteSetTheorems, SequenceTheorems, TLAPS

Types ==
    /\ pc \in [Events -> {"idle", "checked", "admitted", "refused"}]
    /\ channel \in Seq(Events) /\ log \in Seq(Events)
    /\ buffer \in Seq(Events) /\ batch \in Seq(Events)
    /\ hold \in Events \cup {NoEvent}
    /\ accepted \subseteq Events
    /\ in_flight \subseteq Events /\ acks \subseteq Required
    /\ owned \subseteq Events /\ stranded \subseteq Events
    /\ position \in [Events -> Nat] /\ last_position \in Nat
    /\ dropped \in [Events -> Nat]
    /\ answer \in [Events -> {"none", "open", "stored", "lost", "timeout"}]

Distinct(s) == \A i, j \in DOMAIN s : s[i] = s[j] => i = j

\* What the writer and the flusher know of each other's doings.
WriterFlow ==
    /\ writer \in WriterStates
    /\ hold # NoEvent <=> writer \in {"taken", "emit"}
    /\ writer \in {"flush", "batch", "acks", "count", "done"} =>
          channel = <<>> /\ ~open /\ shutdown
    /\ writer \in {"batch", "acks", "count", "done"} => buffer = <<>>
    /\ writer \in {"acks", "count", "done"} => in_flight = {}
    /\ stranded # {} => writer \in {"batch", "acks", "count"}

FlusherFlow ==
    /\ flusher \in FlusherStates
    /\ flusher # "gone" => in_flight \subseteq Range(batch) /\ acks \subseteq Range(batch)
    /\ flusher \in {"due", "empty", "wait", "finished"} => batch = <<>>
    /\ flusher = "finished" => shutdown /\ buffer = <<>>
    /\ flusher \in {"landed", "confirm"} => Range(batch) \subseteq Rows
    /\ flusher \in {"confirm", "dropped"} => in_flight = {}
    /\ owned # {} => flusher = "dropped"

\* An event is at one place at most, and not counted as dropped while it is there.
At(e, place) ==
    \/ place = "channel" /\ e \in Range(channel)
    \/ place = "hold" /\ e = hold
    \/ place = "buffer" /\ e \in Range(buffer)
    \/ place = "in_flight" /\ e \in in_flight
    \/ place = "owned" /\ e \in owned
    \/ place = "stranded" /\ e \in stranded

Apart == \A e \in Events :
    /\ \A a, b : At(e, a) /\ At(e, b) => a = b
    /\ \A a : At(e, a) => dropped[e] = 0 /\ e \in Admitted

Listed ==
    /\ Distinct(channel) /\ Distinct(buffer)
    /\ Range(batch) \subseteq Admitted /\ Rows \subseteq Admitted
    /\ \A e \in Events : pc[e] \in {"idle", "checked"} => e \notin Admitted /\ dropped[e] = 0

\* Nothing admitted is forgotten, unless the writer panics.
Kept == \A e \in Admitted :
    \/ writer = "panicked"
    \/ \E a : At(e, a)
    \/ e \in Rows \/ dropped[e] > 0

IInv == Types /\ WriterFlow /\ FlusherFlow /\ Listed /\ Apart /\ Kept

-----------------------------------------------------------------------------
(* Sequences                                                                 *)

LEMMA EmptyRange == Range(<<>>) = {}
BY DEF Range

LEMMA RangeType == ASSUME NEW S, NEW s \in Seq(S) PROVE Range(s) \subseteq S
BY DEF Range

LEMMA AppendRange ==
    ASSUME NEW S, NEW s \in Seq(S), NEW e \in S
    PROVE  /\ Append(s, e) \in Seq(S)
           /\ Range(Append(s, e)) = Range(s) \cup {e}
           /\ Distinct(s) /\ e \notin Range(s) => Distinct(Append(s, e))
<1>1. /\ Append(s, e) \in Seq(S) /\ Len(Append(s, e)) = Len(s) + 1
      /\ DOMAIN s = 1..Len(s) /\ DOMAIN Append(s, e) = 1..(Len(s) + 1) /\ Len(s) \in Nat
      /\ \A i \in 1..Len(s) : Append(s, e)[i] = s[i]
      /\ Append(s, e)[Len(s) + 1] = e
    OBVIOUS
<1>2. Range(Append(s, e)) = Range(s) \cup {e}
    BY <1>1 DEF Range
<1>3. Distinct(s) /\ e \notin Range(s) => Distinct(Append(s, e))
    BY <1>1 DEF Range, Distinct
<1> QED BY <1>1, <1>2, <1>3

LEMMA TailRange ==
    ASSUME NEW S, NEW s \in Seq(S), s # <<>>
    PROVE  /\ Head(s) \in S /\ Tail(s) \in Seq(S)
           /\ Range(s) = Range(Tail(s)) \cup {Head(s)}
           /\ Distinct(s) => Distinct(Tail(s)) /\ Head(s) \notin Range(Tail(s))
<1>1. /\ Head(s) \in S /\ Tail(s) \in Seq(S) /\ Len(s) \in Nat \ {0}
      /\ DOMAIN s = 1..Len(s) /\ DOMAIN Tail(s) = 1..(Len(s) - 1)
      /\ Head(s) = s[1] /\ \A i \in 1..(Len(s) - 1) : Tail(s)[i] = s[i + 1]
    OBVIOUS
<1>2. Range(s) = Range(Tail(s)) \cup {Head(s)}
    <2>1. ASSUME NEW i \in 1..Len(s) PROVE s[i] \in Range(Tail(s)) \cup {Head(s)}
        <3>1. CASE i = 1
            BY <1>1, <3>1
        <3>2. CASE i # 1
            <4>1. i - 1 \in 1..(Len(s) - 1) /\ Tail(s)[i - 1] = s[i]
                BY <1>1, <3>2
            <4> QED BY <1>1, <4>1 DEF Range
        <3> QED BY <3>1, <3>2
    <2>2. ASSUME NEW i \in 1..(Len(s) - 1) PROVE Tail(s)[i] \in Range(s)
        BY <1>1 DEF Range
    <2>3. Head(s) \in Range(s)
        BY <1>1 DEF Range
    <2> QED BY <1>1, <2>1, <2>2, <2>3 DEF Range
<1>3. Distinct(s) => Distinct(Tail(s)) /\ Head(s) \notin Range(Tail(s))
    BY <1>1 DEF Range, Distinct
<1> QED BY <1>1, <1>2, <1>3

LEMMA SplitRange ==
    ASSUME NEW S, NEW s \in Seq(S), NEW n \in 0..Len(s)
    PROVE  /\ SubSeq(s, 1, n) \in Seq(S) /\ SubSeq(s, n + 1, Len(s)) \in Seq(S)
           /\ Range(s) = Range(SubSeq(s, 1, n)) \cup Range(SubSeq(s, n + 1, Len(s)))
           /\ Distinct(s) => /\ Distinct(SubSeq(s, n + 1, Len(s)))
                             /\ Range(SubSeq(s, 1, n)) \cap Range(SubSeq(s, n + 1, Len(s))) = {}
<1> DEFINE a == SubSeq(s, 1, n)
           b == SubSeq(s, n + 1, Len(s))
<1>1. /\ Len(s) \in Nat /\ DOMAIN s = 1..Len(s)
      /\ a \in Seq(S) /\ DOMAIN a = 1..n /\ \A i \in 1..n : a[i] = s[i]
      /\ b \in Seq(S) /\ DOMAIN b = 1..(Len(s) - n) /\ \A i \in 1..(Len(s) - n) : b[i] = s[n + i]
    BY SubSeqProperties
<1> HIDE DEF a, b
<1>2. Range(s) = Range(a) \cup Range(b)
    <2>1. ASSUME NEW i \in 1..Len(s) PROVE s[i] \in Range(a) \cup Range(b)
        <3>1. CASE i <= n
            BY <1>1, <3>1 DEF Range
        <3>2. CASE i > n
            <4>1. i - n \in 1..(Len(s) - n) /\ n + (i - n) = i
                BY <1>1, <3>2
            <4>2. b[i - n] = s[i]
                BY <1>1, <4>1
            <4> QED BY <1>1, <4>1, <4>2 DEF Range
        <3> QED BY <1>1, <3>1, <3>2
    <2>2. ASSUME NEW i \in 1..n PROVE a[i] \in Range(s)
        BY <1>1 DEF Range
    <2>3. ASSUME NEW i \in 1..(Len(s) - n) PROVE b[i] \in Range(s)
        <3>1. n + i \in DOMAIN s
            BY <1>1
        <3>2. s[n + i] \in Range(s)
            BY <3>1 DEF Range
        <3> QED BY <1>1, <3>2
    <2>4. \A e \in Range(s) : e \in Range(a) \cup Range(b)
        BY <1>1, <2>1 DEF Range
    <2>5. (\A e \in Range(a) : e \in Range(s)) /\ \A e \in Range(b) : e \in Range(s)
        BY <1>1, <2>2, <2>3 DEF Range
    <2> QED BY <2>4, <2>5
<1>3. ASSUME Distinct(s) PROVE Distinct(b) /\ Range(a) \cap Range(b) = {}
    <2>1. Distinct(b)
        <3>1. ASSUME NEW i \in DOMAIN b, NEW j \in DOMAIN b, b[i] = b[j] PROVE i = j
            <4>1. n + i \in DOMAIN s /\ n + j \in DOMAIN s /\ s[n + i] = s[n + j]
                BY <1>1, <3>1
            <4>2. n + i = n + j
                BY <1>3, <4>1 DEF Distinct
            <4> QED BY <1>1, <4>2
        <3> QED BY <3>1 DEF Distinct
    <2>2. ASSUME NEW i \in 1..n, NEW j \in 1..(Len(s) - n) PROVE a[i] # b[j]
        <3>1. i \in DOMAIN s /\ n + j \in DOMAIN s /\ i # n + j
            BY <1>1
        <3>2. s[i] # s[n + j]
            BY <1>3, <3>1 DEF Distinct
        <3> QED BY <1>1, <3>2
    <2> QED BY <1>1, <2>1, <2>2 DEF Range
<1> QED BY <1>1, <1>2, <1>3 DEF a, b

-----------------------------------------------------------------------------
(* Steps that move no event                                                  *)

USE DEF log_vars, sink_vars, batch_vars, settle_vars, store, WriterStates, FlusherStates

\* Nothing an event's whereabouts depend on changes.
Still == UNCHANGED <<pc, channel, log, hold, buffer, batch, in_flight, owned, stranded,
                     position, last_position, dropped>>

LEMMA StillKeeps ==
    ASSUME IInv, Still, writer = "panicked" => writer' = "panicked"
    PROVE  Listed' /\ Apart' /\ Kept'
<1>1. Listed'
    BY DEF IInv, Listed, Still, Rows, Admitted
<1>2. \A e, a : At(e, a)' <=> At(e, a)
    BY DEF At, Still
<1>3. Apart'
    BY <1>2 DEF IInv, Apart, Still, Admitted
<1>4. Kept'
    BY <1>2 DEF IInv, Kept, Still, Admitted, Rows
<1> QED BY <1>1, <1>3, <1>4

LEMMA QuietKeeps ==
    ASSUME IInv,
           \/ \E e \in Events : ReceiptTimesOut(e)
           \/ Uncounts \/ Flushes \/ FlushReported
           \/ SeesDue \/ ChecksDrained \/ Wakes \/ Fails
           \/ Closes \/ DropsSender \/ DrainEnds \/ DeadlinePasses
    PROVE  IInv'
<1>1. Still /\ UNCHANGED acks /\ (writer = "panicked" => writer' = "panicked")
    BY DEF Still, ReceiptTimesOut, Uncounts, Flushes, FlushReported, SeesDue, ChecksDrained,
           Wakes, Fails, Closes, DropsSender, DrainEnds, DeadlinePasses
<1>2. Types'
    BY DEF IInv, Types, ReceiptTimesOut, Uncounts, Flushes, FlushReported, SeesDue, ChecksDrained,
           Wakes, Fails, Closes, DropsSender, DrainEnds, DeadlinePasses
<1>3. WriterFlow'
    BY <1>1, EmptyRange
       DEF IInv, WriterFlow, FlusherFlow, Still, ReceiptTimesOut, Uncounts, Flushes, FlushReported,
           SeesDue, ChecksDrained, Wakes, Fails, Closes, DropsSender, DrainEnds, DeadlinePasses
<1>4. FlusherFlow'
    BY <1>1
       DEF IInv, FlusherFlow, Rows, Still, ReceiptTimesOut, Uncounts, Flushes, FlushReported,
           SeesDue, ChecksDrained, Drained, Wakes, Fails, Closes, DropsSender, DrainEnds,
           DeadlinePasses
<1> QED BY <1>1, <1>2, <1>3, <1>4, StillKeeps DEF IInv

-----------------------------------------------------------------------------
(* Callers                                                                   *)

LEMMA CallsKeeps ==
    ASSUME IInv, NEW e \in Events, Calls(e) \/ Admits(e)
    PROVE  IInv'
<1>0. Types /\ WriterFlow /\ FlusherFlow /\ Listed /\ Apart /\ Kept
    BY DEF IInv
<1>1. CASE Refuse(e) /\ pc[e] \in {"idle", "checked"}
           /\ UNCHANGED <<writer, hold, sink_vars, batch_vars, settle_vars, store>>
    <2>1. /\ e \notin Admitted /\ dropped[e] = 0
          /\ pc' = [pc EXCEPT ![e] = "refused"] /\ dropped'[e] = 1
          /\ \A d \in Events \ {e} : dropped'[d] = dropped[d]
          /\ UNCHANGED <<channel, log, open>>
        BY <1>0, <1>1 DEF Refuse, Count, Listed, Types
    <2>2. Types'
        BY <1>0, <1>1 DEF Refuse, Count, Types
    <2>3. WriterFlow' /\ FlusherFlow'
        BY <1>0, <1>1, <2>1 DEF WriterFlow, FlusherFlow, Rows
    <2>4. Listed'
        BY <1>0, <1>1, <2>1 DEF Listed, Types, Admitted, Rows
    <2>5. \A d, a : At(d, a)' <=> At(d, a)
        BY <1>1, <2>1 DEF At
    <2>6. Apart'
        BY <1>0, <2>1, <2>5 DEF Apart, Admitted
    <2>7. Admitted \subseteq Events /\ Admitted' = Admitted /\ Rows' = Rows
        BY <1>0, <1>1, <2>1, RangeType DEF Admitted, Rows, Types
    <2>8. Kept'
        BY <1>0, <1>1, <2>1, <2>5, <2>7 DEF Kept
    <2> QED BY <2>2, <2>3, <2>4, <2>6, <2>8 DEF IInv
<1>2. CASE Calls(e) /\ ~closed
    <2>1. pc' = [pc EXCEPT ![e] = "checked"] /\ pc[e] = "idle"
        BY <1>2 DEF Calls, Refuse
    <2>2. UNCHANGED <<channel, open, log, dropped, answer, writer, hold, sink_vars, batch_vars,
                      settle_vars, store>>
        BY <1>2 DEF Calls, Refuse
    <2>3. Types'
        BY <1>0, <2>1, <2>2 DEF Types
    <2>4. WriterFlow' /\ FlusherFlow'
        BY <1>0, <2>2 DEF WriterFlow, FlusherFlow, Rows
    <2>5. Listed'
        BY <1>0, <2>1, <2>2 DEF Listed, Types, Admitted, Rows
    <2>6. \A d, a : At(d, a)' <=> At(d, a)
        BY <2>2 DEF At
    <2>7. Apart' /\ Kept'
        BY <1>0, <2>2, <2>6 DEF Apart, Kept, Admitted, Rows
    <2> QED BY <2>3, <2>4, <2>5, <2>7 DEF IInv
<1>3. CASE /\ Admits(e) /\ open /\ ~CannotSend /\ pc' = [pc EXCEPT ![e] = "admitted"]
    <2>1. /\ pc[e] = "checked"
          /\ channel' = Append(channel, e) /\ log' = Append(log, e)
          /\ answer' = [answer EXCEPT ![e] = IF e \in Required THEN "open" ELSE "none"]
          /\ UNCHANGED <<open, dropped, writer, hold, sink_vars, batch_vars, settle_vars, store>>
        BY <1>0, <1>3 DEF Admits, Refuse, Types
    <2>2. e \notin Admitted /\ dropped[e] = 0
        BY <1>0, <2>1 DEF Listed
    <2>3. Admitted' = Admitted \cup {e} /\ Range(channel') = Range(channel) \cup {e}
        BY <1>0, <2>1, AppendRange DEF Types, Admitted
    <2>4. \A a : ~At(e, a)
        BY <1>0, <2>2 DEF Apart
    <2>5. Distinct(channel')
        <3>1. e \notin Range(channel)
            BY <2>4 DEF At
        <3> QED BY <1>0, <2>1, <3>1, AppendRange DEF Types, Listed
    <2>6. Types'
        BY <1>0, <1>3, <2>1, AppendRange DEF Types
    <2>7. WriterFlow' /\ FlusherFlow'
        BY <1>0, <1>3, <2>1 DEF WriterFlow, FlusherFlow, Rows
    <2>8. Listed'
        BY <1>0, <1>3, <2>1, <2>3, <2>5 DEF Listed, Types, Rows
    <2>9. /\ \A d, a : At(d, a)' <=> At(d, a) \/ (d = e /\ a = "channel")
        BY <2>1, <2>3 DEF At
    <2>10. Apart'
        BY <1>0, <2>1, <2>2, <2>3, <2>4, <2>9 DEF Apart
    <2>11. Kept'
        BY <1>0, <2>1, <2>3, <2>9 DEF Kept, Rows
    <2> QED BY <2>6, <2>7, <2>8, <2>10, <2>11 DEF IInv
<1> QED BY <1>1, <1>2, <1>3 DEF Calls, Admits

-----------------------------------------------------------------------------
(* The writer                                                                *)

LEMMA ReceivesKeeps == ASSUME IInv, Receives PROVE IInv'
<1>0. Types /\ WriterFlow /\ FlusherFlow /\ Listed /\ Apart /\ Kept
    BY DEF IInv
<1>a. PICK h \in Events : h = Head(channel)
    BY <1>0, TailRange DEF Receives, Types
<1>1. /\ writer = "recv" /\ writer' = "taken" /\ hold = NoEvent
      /\ channel # <<>> /\ hold' = h /\ channel' = Tail(channel)
      /\ UNCHANGED <<pc, log, open, dropped, answer, sink_vars, batch_vars, settle_vars, store>>
    BY <1>0, <1>a DEF Receives, WriterFlow
<1>2. /\ Tail(channel) \in Seq(Events)
      /\ Range(channel) = Range(channel') \cup {h}
      /\ Distinct(channel') /\ h \notin Range(channel')
    BY <1>0, <1>a, <1>1, TailRange DEF Types, Listed
<1>3. h # NoEvent
    BY AuditAssumption
<1>4. Types'
    BY <1>0, <1>1, <1>2 DEF Types
<1>5. WriterFlow' /\ FlusherFlow'
    BY <1>0, <1>1, <1>3 DEF WriterFlow, FlusherFlow, Rows
<1>6. Listed'
    BY <1>0, <1>1, <1>2 DEF Listed, Admitted, Rows
<1>7. /\ \A a : At(h, a) <=> a = "channel"
      /\ \A a : At(h, a)' <=> a = "hold"
    <2>1. At(h, "channel")
        BY <1>2 DEF At
    <2>2. \A a : At(h, a) => a = "channel"
        BY <1>0, <1>2, <2>1 DEF Apart
    <2>3. \A a : At(h, a)' => a = "hold" \/ (At(h, a) /\ a # "channel")
        BY <1>1, <1>2 DEF At
    <2>4. At(h, "hold")'
        BY <1>1 DEF At
    <2> QED BY <2>1, <2>2, <2>3, <2>4
<1>8. \A d \in Events \ {h} : \A a : At(d, a)' <=> At(d, a)
    BY <1>1, <1>2, AuditAssumption DEF At
<1>9. Admitted' = Admitted /\ Rows' = Rows /\ dropped' = dropped /\ Admitted \subseteq Events
    BY <1>0, <1>1, RangeType DEF Admitted, Rows, Types
<1>10. Apart'
    BY <1>0, <1>7, <1>8, <1>9 DEF Apart
<1>11. Kept'
    BY <1>0, <1>1, <1>7, <1>8, <1>9 DEF Kept
<1> QED BY <1>4, <1>5, <1>6, <1>10, <1>11 DEF IInv

LEMMA EmitsKeeps == ASSUME IInv, Emits PROVE IInv'
<1>0. Types /\ WriterFlow /\ FlusherFlow /\ Listed /\ Apart /\ Kept
    BY DEF IInv
<1>a. PICK h \in Events : h = hold
    BY <1>0 DEF Emits, WriterFlow, Types
<1>1. /\ writer = "emit" /\ writer' = "recv" /\ hold' = NoEvent /\ h # NoEvent
      /\ UNCHANGED <<log_vars, shutdown, batch_vars, settle_vars, store>>
    BY <1>a, AuditAssumption DEF Emits
<1>2. /\ \A a : At(h, a) <=> a = "hold"
      /\ \A d \in Events : \A a : a # "buffer" => (At(d, a)' <=> At(d, a) /\ d # h)
    <2>1. At(h, "hold")
        BY <1>a DEF At
    <2>2. \A a : At(h, a) => a = "hold"
        BY <1>0, <2>1 DEF Apart
    <2>3. \A d \in Events : \A a : a # "buffer" /\ a # "hold" => (At(d, a)' <=> At(d, a))
        BY <1>1 DEF At
    <2>4. \A d \in Events : (At(d, "hold") <=> d = h) /\ ~At(d, "hold")'
        BY <1>a, <1>1, AuditAssumption DEF At
    <2> QED BY <2>1, <2>2, <2>3, <2>4
<1>3. Admitted' = Admitted /\ Rows' = Rows /\ Admitted \subseteq Events /\ h \in Admitted
    <2>1. h \in Admitted
        BY <1>0, <1>2 DEF Apart
    <2> QED BY <1>0, <1>1, <2>1, RangeType DEF Admitted, Rows, Types
<1>4. dropped[h] = 0
    BY <1>0, <1>2 DEF Apart
<1>5. WriterFlow'
    BY <1>0, <1>1 DEF WriterFlow
<1>6. CASE PushRefused /\ Count({hold}) /\ UNCHANGED <<buffer, accepted>> /\ answer' = Answered({hold}, "lost")
    <2>1. /\ dropped'[h] = 1 /\ \A d \in Events \ {h} : dropped'[d] = dropped[d]
          /\ dropped' \in [Events -> Nat]
        BY <1>0, <1>a, <1>4, <1>6 DEF Count, Types
    <2>2. Types'
        BY <1>0, <1>1, <1>6, <2>1 DEF Types, Answered
    <2>3. FlusherFlow'
        BY <1>0, <1>1, <1>6 DEF FlusherFlow, Rows
    <2>4. Listed'
        BY <1>0, <1>1, <1>3, <1>6, <2>1 DEF Listed
    <2>5. \A d \in Events : \A a : At(d, a)' <=> At(d, a) /\ d # h
        <3>1. \A d \in Events : At(d, "buffer")' <=> At(d, "buffer")
            BY <1>6 DEF At
        <3> QED BY <1>2, <3>1
    <2>6. Apart'
        BY <1>0, <1>3, <2>1, <2>5 DEF Apart
    <2>7. Kept'
        BY <1>0, <1>1, <1>3, <2>1, <2>5 DEF Kept
    <2> QED BY <1>5, <2>2, <2>3, <2>4, <2>6, <2>7 DEF IInv
<1>7. CASE /\ ~PushRefused /\ buffer' = Append(buffer, hold) /\ accepted' = accepted \cup {hold}
           /\ UNCHANGED <<dropped, answer>>
    <2>1. /\ buffer' \in Seq(Events) /\ Range(buffer') = Range(buffer) \cup {h}
          /\ Distinct(buffer')
        <3>1. h \notin Range(buffer)
            BY <1>2 DEF At
        <3> QED BY <1>0, <1>a, <1>7, <3>1, AppendRange DEF Types, Listed
    <2>2. Types'
        BY <1>0, <1>a, <1>1, <1>7, <2>1 DEF Types
    <2>3. FlusherFlow'
        BY <1>0, <1>1, <1>7 DEF FlusherFlow, Rows, PushRefused
    <2>4. Listed'
        BY <1>0, <1>1, <1>3, <1>7, <2>1 DEF Listed
    <2>5. \A d \in Events : \A a : At(d, a)' <=> (At(d, a) /\ d # h) \/ (d = h /\ a = "buffer")
        <3>1. \A d \in Events : At(d, "buffer")' <=> At(d, "buffer") \/ d = h
            BY <2>1 DEF At
        <3> QED BY <1>2, <3>1
    <2>6. Apart'
        BY <1>0, <1>2, <1>3, <1>4, <1>7, <2>5 DEF Apart
    <2>7. Kept'
        BY <1>0, <1>1, <1>3, <1>7, <2>5 DEF Kept
    <2> QED BY <1>5, <2>2, <2>3, <2>4, <2>6, <2>7 DEF IInv
<1> QED BY <1>6, <1>7 DEF Emits

LEMMA PanicsKeeps == ASSUME IInv, Panics PROVE IInv'
<1>0. Types /\ WriterFlow /\ FlusherFlow /\ Listed /\ Apart /\ Kept
    BY DEF IInv
<1>1. /\ writer = "emit" /\ writer' = "panicked" /\ hold' = NoEvent /\ channel' = <<>>
      /\ UNCHANGED <<pc, open, log, sink_vars, batch_vars, settle_vars, store, dropped>>
    BY DEF Panics
<1>2. Types'
    BY <1>0, <1>1 DEF Panics, Types, Answered
<1>3. WriterFlow' /\ FlusherFlow'
    BY <1>0, <1>1 DEF WriterFlow, FlusherFlow, Rows
<1>4. Distinct(channel')
    BY <1>1 DEF Distinct
<1>5. Listed'
    BY <1>0, <1>1, <1>4 DEF Listed, Admitted, Rows
<1>6. \A d \in Events : \A a : At(d, a)' => At(d, a)
    BY <1>1, EmptyRange, AuditAssumption DEF At
<1>7. Apart'
    BY <1>0, <1>1, <1>6 DEF Apart, Admitted
<1>8. Kept'
    BY <1>1 DEF Kept
<1> QED BY <1>2, <1>3, <1>5, <1>7, <1>8 DEF IInv

LEMMA StrandsBufferKeeps == ASSUME IInv, StrandsBuffer PROVE IInv'
<1>0. Types /\ WriterFlow /\ FlusherFlow /\ Listed /\ Apart /\ Kept
    BY DEF IInv
<1>1. /\ writer = "flush" /\ writer' = "batch" /\ stranded' = Range(buffer) /\ buffer' = <<>>
      /\ UNCHANGED <<log_vars, hold, shutdown, accepted, batch_vars, in_flight, acks, owned,
                     store, dropped>>
    BY DEF StrandsBuffer
<1>2. Types'
    BY <1>0, <1>1, RangeType DEF StrandsBuffer, Types, Answered
<1>3. WriterFlow' /\ FlusherFlow'
    BY <1>0, <1>1 DEF WriterFlow, FlusherFlow, Rows
<1>4. Distinct(buffer')
    BY <1>1 DEF Distinct
<1>5. Listed'
    BY <1>0, <1>1, <1>4 DEF Listed, Admitted, Rows
<1>6. \A d, a : At(d, a)' <=> IF a = "stranded" THEN At(d, "buffer") ELSE a # "buffer" /\ At(d, a)
    BY <1>1, EmptyRange DEF At
<1>7. \A d : ~At(d, "stranded")
    BY <1>0, <1>1 DEF At, WriterFlow
<1>8. Admitted' = Admitted /\ Rows' = Rows
    BY <1>1 DEF Admitted, Rows
<1>9. Apart'
    BY <1>0, <1>1, <1>6, <1>7, <1>8 DEF Apart
<1>10. Kept'
    BY <1>0, <1>1, <1>6, <1>7, <1>8 DEF Kept
<1> QED BY <1>2, <1>3, <1>5, <1>9, <1>10 DEF IInv

LEMMA StrandsBatchKeeps == ASSUME IInv, StrandsBatch PROVE IInv'
<1>0. Types /\ WriterFlow /\ FlusherFlow /\ Listed /\ Apart /\ Kept
    BY DEF IInv
<1>1. /\ writer = "batch" /\ writer' = "acks" /\ stranded' = stranded \cup in_flight /\ in_flight' = {}
      /\ UNCHANGED <<log_vars, hold, sink_vars, batch_vars, acks, owned, store, dropped, answer>>
    BY DEF StrandsBatch
<1>2. Types'
    BY <1>0, <1>1 DEF Types
<1>3. WriterFlow' /\ FlusherFlow'
    BY <1>0, <1>1 DEF WriterFlow, FlusherFlow, Rows
<1>5. Listed'
    BY <1>0, <1>1 DEF Listed, Admitted, Rows
<1>6. \A d, a : At(d, a)' <=> (a # "in_flight" /\ At(d, a)) \/ (a = "stranded" /\ At(d, "in_flight"))
    BY <1>1 DEF At
<1>8. Admitted' = Admitted /\ Rows' = Rows
    BY <1>1 DEF Admitted, Rows
<1>9. Apart'
    BY <1>0, <1>1, <1>6, <1>8 DEF Apart
<1>10. Kept'
    BY <1>0, <1>1, <1>6, <1>8 DEF Kept
<1> QED BY <1>2, <1>3, <1>5, <1>9, <1>10 DEF IInv

LEMMA StrandsAcksKeeps == ASSUME IInv, StrandsAcks PROVE IInv'
<1>1. Still /\ writer # "panicked"
    BY DEF StrandsAcks, Still
<1>2. Types'
    BY DEF IInv, Types, StrandsAcks, Answered
<1>3. WriterFlow' /\ FlusherFlow'
    BY DEF IInv, WriterFlow, FlusherFlow, Rows, StrandsAcks
<1> QED BY <1>1, <1>2, <1>3, StillKeeps DEF IInv

LEMMA CountsStrandedKeeps == ASSUME IInv, CountsStranded PROVE IInv'
<1>0. Types /\ WriterFlow /\ FlusherFlow /\ Listed /\ Apart /\ Kept
    BY DEF IInv
<1>1. /\ writer = "count" /\ writer' = "done" /\ stranded' = {}
      /\ dropped' = [e \in Events |-> dropped[e] + IF e \in stranded THEN 1 ELSE 0]
      /\ UNCHANGED <<log_vars, hold, sink_vars, batch_vars, in_flight, acks, owned, store, answer>>
    BY DEF CountsStranded, Count
<1>2. /\ dropped' \in [Events -> Nat]
      /\ \A e \in Events : dropped'[e] > 0 <=> dropped[e] > 0 \/ e \in stranded
      /\ \A e \in Events : dropped'[e] = 0 <=> dropped[e] = 0 /\ e \notin stranded
    BY <1>0, <1>1 DEF Types
<1>3. Types'
    BY <1>0, <1>1, <1>2 DEF Types
<1>4. WriterFlow' /\ FlusherFlow'
    BY <1>0, <1>1 DEF WriterFlow, FlusherFlow, Rows
<1>5. Admitted' = Admitted /\ Rows' = Rows /\ Admitted \subseteq Events
    BY <1>0, <1>1, RangeType DEF Admitted, Rows, Types
<1>6. \A e \in stranded : e \in Admitted /\ e \in Events
    BY <1>0 DEF Apart, At, Types
<1>7. Listed'
    BY <1>0, <1>1, <1>2, <1>5, <1>6 DEF Listed
<1>8. /\ \A d, a : At(d, a)' <=> a # "stranded" /\ At(d, a)
      /\ \A d : At(d, "stranded") <=> d \in stranded
    BY <1>1 DEF At
<1>9. Apart'
    BY <1>0, <1>2, <1>5, <1>8 DEF Apart
<1>10. Kept'
    BY <1>0, <1>1, <1>2, <1>5, <1>8 DEF Kept
<1> QED BY <1>3, <1>4, <1>7, <1>9, <1>10 DEF IInv

-----------------------------------------------------------------------------
(* The flusher                                                               *)

\* take_batch moves events from the buffer to the batch, if there is none yet.
LEMMA TakesBatchFacts ==
    ASSUME IInv, TakesBatch, flusher # "gone"
    PROVE  /\ buffer' \in Seq(Events) /\ batch' \in Seq(Events)
           /\ Distinct(buffer') /\ in_flight' \subseteq Events /\ acks' \subseteq Required
           /\ in_flight' \subseteq Range(batch') /\ acks' \subseteq Range(batch')
           /\ Range(batch') \subseteq Range(batch) \cup Range(buffer)
           /\ in_flight \cup Range(buffer) = in_flight' \cup Range(buffer')
           /\ in_flight' \cap Range(buffer') = {}
           /\ buffer = <<>> => buffer' = <<>> /\ in_flight' = in_flight
<1>0. Types /\ WriterFlow /\ FlusherFlow /\ Listed /\ Apart /\ Kept
    BY DEF IInv
<1>1. CASE batch # <<>>
    <2>1. UNCHANGED <<buffer, batch, in_flight, acks>>
        BY <1>1 DEF TakesBatch
    <2>2. in_flight \cap Range(buffer) = {}
        <3>1. ASSUME NEW e \in in_flight, e \in Range(buffer) PROVE FALSE
            <4>1. e \in Events /\ At(e, "in_flight") /\ At(e, "buffer")
                BY <1>0, <3>1 DEF At, Types
            <4>2. "in_flight" = "buffer"
                BY <1>0, <4>1 DEF Apart
            <4> QED BY <4>2
        <3> QED BY <3>1
    <2> QED BY <1>0, <2>1, <2>2 DEF Types, Listed, FlusherFlow
<1>2. CASE batch = <<>>
    <2> DEFINE n == IF Len(buffer) <= BatchSize THEN Len(buffer) ELSE BatchSize
               first == SubSeq(buffer, 1, n)
               rest == SubSeq(buffer, n + 1, Len(buffer))
    <2>1. /\ batch' = first /\ buffer' = rest
          /\ in_flight' = Range(first) /\ acks' = acks \cup (Range(first) \cap Required)
        BY <1>2 DEF TakesBatch
    <2>2. Len(buffer) \in Nat /\ n \in 0..Len(buffer)
        BY <1>0, AuditAssumption DEF Types
    <2>3. in_flight = {} /\ acks = {}
        BY <1>0, <1>2, EmptyRange DEF FlusherFlow
    <2>4. buffer = <<>> => n = 0
        BY <2>2
    <2> HIDE DEF n
    <2>5. /\ first \in Seq(Events) /\ rest \in Seq(Events)
          /\ Range(buffer) = Range(first) \cup Range(rest)
          /\ Distinct(rest) /\ Range(first) \cap Range(rest) = {}
        BY <1>0, <2>2, SplitRange DEF Types, Listed
    <2>6. ASSUME buffer = <<>> PROVE Range(first) = {} /\ rest = <<>>
        <3>1. Range(first) \cup Range(rest) = {}
            BY <2>5, <2>6, EmptyRange
        <3>2. Len(buffer) = 0
            BY <2>6
        <3>3. rest = <<>>
            BY <2>4, <2>6, <3>2, SubSeqEmpty
        <3> QED BY <3>1, <3>3
    <2>7. Range(first) \subseteq Events
        BY <2>5, RangeType
    <2> HIDE DEF first, rest
    <2> QED BY <2>1, <2>3, <2>5, <2>6, <2>7
<1> QED BY <1>1, <1>2

LEMMA StartsKeeps == ASSUME IInv, Starts \/ ChecksOut PROVE IInv'
<1>0. Types /\ WriterFlow /\ FlusherFlow /\ Listed /\ Apart /\ Kept
    BY DEF IInv
<1>1. /\ flusher \in {"attempt", "checkout"}
      /\ flusher' \in {"due", "drop", "checkout", "insert", "failed"}
      /\ UNCHANGED <<log_vars, writer, hold, shutdown, accepted, owned, stranded, store, dropped, answer>>
    BY DEF Starts, ChecksOut
<1>2. CASE UNCHANGED <<buffer, batch, in_flight, acks>> /\ flusher' = "checkout"
    <2>1. Still
        BY <1>1, <1>2 DEF Still
    <2>2. Types' /\ WriterFlow' /\ FlusherFlow'
        BY <1>0, <1>1, <1>2 DEF Types, WriterFlow, FlusherFlow, Rows
    <2> QED BY <1>1, <2>1, <2>2, StillKeeps DEF IInv
<1>3. CASE TakesBatch /\ (flusher' = "due" => batch' = <<>>)
    <2>1. /\ buffer' \in Seq(Events) /\ batch' \in Seq(Events)
          /\ Distinct(buffer') /\ in_flight' \subseteq Events /\ acks' \subseteq Required
          /\ in_flight' \subseteq Range(batch') /\ acks' \subseteq Range(batch')
          /\ Range(batch') \subseteq Range(batch) \cup Range(buffer)
          /\ in_flight \cup Range(buffer) = in_flight' \cup Range(buffer')
          /\ in_flight' \cap Range(buffer') = {}
          /\ buffer = <<>> => buffer' = <<>> /\ in_flight' = in_flight
        BY <1>1, <1>3, TakesBatchFacts
    <2>2. Types'
        BY <1>0, <1>1, <2>1 DEF Types
    <2>3. WriterFlow' /\ FlusherFlow'
        BY <1>0, <1>1, <1>3, <2>1 DEF WriterFlow, FlusherFlow
    <2>4. Admitted' = Admitted /\ Rows' = Rows
        BY <1>1 DEF Admitted, Rows
    <2>5. Range(buffer) \subseteq Admitted
        <3>1. \A e \in Range(buffer) : e \in Events /\ At(e, "buffer")
            BY <1>0, RangeType DEF At, Types
        <3> QED BY <1>0, <3>1 DEF Apart
    <2>6. Listed'
        BY <1>0, <1>1, <2>1, <2>4, <2>5 DEF Listed
    <2>7. /\ \A d, a : a \notin {"buffer", "in_flight"} => (At(d, a)' <=> At(d, a))
          /\ \A d : At(d, "buffer") \/ At(d, "in_flight")
                     <=> At(d, "buffer")' \/ At(d, "in_flight")'
          /\ \A d : ~(At(d, "buffer")' /\ At(d, "in_flight")')
        BY <1>1, <2>1 DEF At
    <2>8. Apart'
        <3>1. ASSUME NEW e \in Events, NEW a, NEW b, At(e, a)', At(e, b)' PROVE a = b
            <4>1. CASE a \notin {"buffer", "in_flight"} /\ b \notin {"buffer", "in_flight"}
                BY <1>0, <2>7, <3>1, <4>1 DEF Apart
            <4>2. CASE a \in {"buffer", "in_flight"} /\ b \notin {"buffer", "in_flight"}
                BY <1>0, <2>7, <3>1, <4>2 DEF Apart
            <4>3. CASE a \notin {"buffer", "in_flight"} /\ b \in {"buffer", "in_flight"}
                BY <1>0, <2>7, <3>1, <4>3 DEF Apart
            <4>4. CASE a \in {"buffer", "in_flight"} /\ b \in {"buffer", "in_flight"}
                BY <2>7, <3>1, <4>4
            <4> QED BY <4>1, <4>2, <4>3, <4>4
        <3>2. ASSUME NEW e \in Events, NEW a, At(e, a)' PROVE dropped'[e] = 0 /\ e \in Admitted'
            <4>1. \E b : At(e, b)
                BY <2>7, <3>2
            <4> QED BY <1>0, <1>1, <2>4, <4>1 DEF Apart
        <3> QED BY <3>1, <3>2 DEF Apart
    <2>9. Kept'
        BY <1>0, <1>1, <2>4, <2>7 DEF Kept
    <2> QED BY <2>2, <2>3, <2>6, <2>8, <2>9 DEF IInv
<1> QED BY <1>2, <1>3 DEF Starts, ChecksOut

\* The transaction gives exactly the events of the batch a row.
LEMMA CommitRows ==
    ASSUME Types, Commit
    PROVE  /\ Rows' = Rows \cup Range(batch)
           /\ position' \in [Events -> Nat] /\ last_position' \in Nat
<1>1. DOMAIN batch = 1..Len(batch) /\ Len(batch) \in Nat /\ \A i \in DOMAIN batch : batch[i] \in Events
    BY DEF Types
<1>2. IsFiniteSet(Pending)
    <2>1. IsFiniteSet(1..Len(batch)) /\ Pending \in SUBSET (1..Len(batch))
        BY <1>1, FS_Interval DEF Pending
    <2> QED BY <2>1, FS_Subset
<1>3. ASSUME NEW i \in Pending PROVE RowNumber(i) \in Nat /\ RowNumber(i) > 0
    <2> DEFINE S == {j \in Pending : j <= i}
    <2>1. IsFiniteSet(S)
        BY <1>2, FS_Subset
    <2>2. i \in S
        BY <1>1 DEF Pending
    <2>3. Cardinality(S) \in Nat /\ Cardinality(S) # 0
        BY <2>1, <2>2, FS_CardinalityType, FS_EmptySet
    <2> QED BY <2>3 DEF RowNumber
<1>4. Cardinality(Pending) \in Nat
    BY <1>2, FS_CardinalityType
<1>5. ASSUME NEW e \in Events, \E i \in Pending : batch[i] = e
      PROVE  position'[e] \in Nat /\ position'[e] > 0
    <2>1. (CHOOSE i \in Pending : batch[i] = e) \in Pending
        BY <1>5
    <2>2. position'[e] = last_position + RowNumber(CHOOSE i \in Pending : batch[i] = e)
        BY <1>5 DEF Commit
    <2>3. last_position \in Nat
        BY DEF Types
    <2> QED BY <1>3, <2>1, <2>2, <2>3
<1>6. ASSUME NEW e \in Events, ~\E i \in Pending : batch[i] = e
      PROVE  position'[e] = position[e]
    BY <1>6 DEF Commit
<1>7. position' \in [Events -> Nat]
    <2>1. DOMAIN position' = Events /\ position' = [e \in Events |-> position'[e]]
        BY DEF Commit
    <2> QED BY <1>5, <1>6, <2>1 DEF Types
<1>8. \A e \in Events : (\E i \in Pending : batch[i] = e) <=> e \in Range(batch) /\ e \notin Rows
    BY DEF Pending, Range
<1>9. Range(batch) \subseteq Events
    BY RangeType DEF Types
<1>10. \A e \in Events : e \in Rows' <=> e \in Rows \/ e \in Range(batch)
    BY <1>5, <1>6, <1>8 DEF Rows
<1>11. Rows' = Rows \cup Range(batch)
    <2>1. Rows \subseteq Events /\ Rows' \subseteq Events
        BY DEF Rows
    <2> QED BY <1>9, <1>10, <2>1
<1>12. last_position' \in Nat
    BY <1>4 DEF Commit, Types
<1> QED BY <1>7, <1>11, <1>12

LEMMA InsertsKeeps == ASSUME IInv, Inserts \/ TornDown PROVE IInv'
<1>0. Types /\ WriterFlow /\ FlusherFlow /\ Listed /\ Apart /\ Kept
    BY DEF IInv
<1>1. /\ flusher' \in {"landed", "failed", "gone"} /\ flusher # "gone"
      /\ batch' = batch \/ (batch' = <<>> /\ flusher' = "gone")
      /\ flusher' = "landed" => Commit
      /\ flusher \in {"wait", "attempt", "checkout", "insert"}
      /\ Commit \/ UNCHANGED store
      /\ UNCHANGED <<log_vars, writer, hold, sink_vars, settle_vars, dropped, answer>>
    BY DEF Inserts, TornDown
<1>2. /\ Rows \subseteq Rows' /\ Rows' \subseteq Rows \cup Range(batch)
      /\ flusher' = "landed" => Range(batch) \subseteq Rows'
      /\ position' \in [Events -> Nat] /\ last_position' \in Nat
    <2>1. CASE Commit
        BY <1>0, <2>1, CommitRows
    <2>2. CASE UNCHANGED store /\ flusher' # "landed"
        BY <1>0, <2>2 DEF Rows, Types
    <2> QED BY <1>1, <2>1, <2>2
<1>3. Range(batch') \subseteq Range(batch) /\ batch' \in Seq(Events)
    <2>1. CASE batch' = batch
        BY <1>0, <2>1 DEF Types
    <2>2. CASE batch' = <<>>
        BY <2>2, EmptyRange
    <2> QED BY <1>1, <2>1, <2>2
<1>4. Types'
    BY <1>0, <1>1, <1>2, <1>3 DEF Types
<1>5. WriterFlow' /\ FlusherFlow'
    BY <1>0, <1>1, <1>2 DEF WriterFlow, FlusherFlow
<1>6. Admitted' = Admitted
    BY <1>1 DEF Admitted
<1>7. Listed'
    BY <1>0, <1>1, <1>2, <1>3, <1>6 DEF Listed
<1>8. \A d, a : At(d, a)' <=> At(d, a)
    BY <1>1 DEF At
<1>9. Apart' /\ Kept'
    BY <1>0, <1>1, <1>2, <1>6, <1>8 DEF Apart, Kept
<1> QED BY <1>4, <1>5, <1>7, <1>9 DEF IInv

LEMMA LandsKeeps == ASSUME IInv, Lands PROVE IInv'
<1>0. Types /\ WriterFlow /\ FlusherFlow /\ Listed /\ Apart /\ Kept
    BY DEF IInv
<1>1. /\ flusher = "landed" /\ flusher' = "confirm" /\ in_flight' = {}
      /\ UNCHANGED <<log_vars, writer, hold, sink_vars, batch, acks, owned, stranded, store,
                     dropped, answer>>
    BY DEF Lands
<1>2. Types' /\ WriterFlow' /\ FlusherFlow' /\ Listed'
    BY <1>0, <1>1 DEF Types, WriterFlow, FlusherFlow, Listed, Admitted, Rows
<1>3. \A d, a : At(d, a)' <=> a # "in_flight" /\ At(d, a)
    BY <1>1 DEF At
<1>4. \A d : At(d, "in_flight") => d \in Rows
    BY <1>0, <1>1 DEF At, FlusherFlow
<1>5. Admitted' = Admitted /\ Rows' = Rows
    BY <1>1 DEF Admitted, Rows
<1>6. Apart' /\ Kept'
    BY <1>0, <1>1, <1>3, <1>4, <1>5 DEF Apart, Kept
<1> QED BY <1>2, <1>6 DEF IInv

LEMMA ConfirmsKeeps == ASSUME IInv, Confirms PROVE IInv'
<1>0. Types /\ WriterFlow /\ FlusherFlow /\ Listed /\ Apart /\ Kept
    BY DEF IInv
<1>1. /\ flusher = "confirm" /\ flusher' = "due" /\ batch' = <<>> /\ acks' = {}
      /\ UNCHANGED <<log_vars, writer, hold, sink_vars, in_flight, owned, stranded, store, dropped>>
    BY DEF Confirms
<1>2. Types'
    BY <1>0, <1>1 DEF Confirms, Types, Answered
<1>3. WriterFlow' /\ FlusherFlow'
    BY <1>0, <1>1 DEF WriterFlow, FlusherFlow
<1>4. Listed'
    BY <1>0, <1>1, EmptyRange DEF Listed, Admitted, Rows
<1>5. \A d, a : At(d, a)' <=> At(d, a)
    BY <1>1 DEF At
<1>6. Apart' /\ Kept'
    BY <1>0, <1>1, <1>5 DEF Apart, Kept, Admitted, Rows
<1> QED BY <1>2, <1>3, <1>4, <1>6 DEF IInv

LEMMA DropsKeeps == ASSUME IInv, Drops PROVE IInv'
<1>0. Types /\ WriterFlow /\ FlusherFlow /\ Listed /\ Apart /\ Kept
    BY DEF IInv
<1>1. /\ flusher = "drop" /\ flusher' = "dropped" /\ owned' = in_flight /\ in_flight' = {}
      /\ UNCHANGED <<log_vars, writer, hold, sink_vars, batch, acks, stranded, store, dropped, answer>>
    BY DEF Drops
<1>2. Types' /\ WriterFlow' /\ FlusherFlow' /\ Listed'
    BY <1>0, <1>1 DEF Types, WriterFlow, FlusherFlow, Listed, Admitted, Rows
<1>3. /\ \A d, a : At(d, a)' <=> IF a = "owned" THEN At(d, "in_flight")
                                 ELSE a # "in_flight" /\ At(d, a)
      /\ \A d : ~At(d, "owned")
    BY <1>0, <1>1 DEF At, FlusherFlow
<1>4. Admitted' = Admitted /\ Rows' = Rows
    BY <1>1 DEF Admitted, Rows
<1>5. Apart' /\ Kept'
    BY <1>0, <1>1, <1>3, <1>4 DEF Apart, Kept
<1> QED BY <1>2, <1>5 DEF IInv

LEMMA CountsDroppedKeeps == ASSUME IInv, CountsDropped PROVE IInv'
<1>0. Types /\ WriterFlow /\ FlusherFlow /\ Listed /\ Apart /\ Kept
    BY DEF IInv
<1>1. /\ flusher = "dropped" /\ flusher' = "due" /\ batch' = <<>> /\ acks' = {} /\ owned' = {}
      /\ dropped' = [e \in Events |-> dropped[e] + IF e \in owned THEN 1 ELSE 0]
      /\ UNCHANGED <<log_vars, writer, hold, sink_vars, in_flight, stranded, store>>
    BY DEF CountsDropped, Count
<1>2. /\ dropped' \in [Events -> Nat]
      /\ \A e \in Events : dropped'[e] > 0 <=> dropped[e] > 0 \/ e \in owned
      /\ \A e \in Events : dropped'[e] = 0 <=> dropped[e] = 0 /\ e \notin owned
    BY <1>0, <1>1 DEF Types
<1>3. Types'
    BY <1>0, <1>1, <1>2 DEF CountsDropped, Types, Answered
<1>4. WriterFlow' /\ FlusherFlow'
    BY <1>0, <1>1 DEF WriterFlow, FlusherFlow
<1>5. Admitted' = Admitted /\ Rows' = Rows /\ Admitted \subseteq Events
    BY <1>0, <1>1, RangeType DEF Admitted, Rows, Types
<1>6. \A e \in owned : e \in Admitted /\ e \in Events
    BY <1>0 DEF Apart, At, Types
<1>7. Listed'
    BY <1>0, <1>1, <1>2, <1>5, <1>6, EmptyRange DEF Listed
<1>8. /\ \A d, a : At(d, a)' <=> a # "owned" /\ At(d, a)
      /\ \A d : At(d, "owned") <=> d \in owned
    BY <1>1 DEF At
<1>9. Apart'
    BY <1>0, <1>2, <1>5, <1>8 DEF Apart
<1>10. Kept'
    BY <1>0, <1>1, <1>2, <1>5, <1>8 DEF Kept
<1> QED BY <1>3, <1>4, <1>7, <1>9, <1>10 DEF IInv

-----------------------------------------------------------------------------
(* The inductive invariant                                                   *)

LEMMA InitInv == Init => IInv
<1> SUFFICES ASSUME Init PROVE IInv
    OBVIOUS
<1>1. Types /\ WriterFlow /\ FlusherFlow
    BY EmptyRange, AuditAssumption DEF Init, Types, WriterFlow, FlusherFlow
<1>2. Admitted = {} /\ Rows = {} /\ Distinct(channel) /\ Distinct(buffer) /\ Range(batch) = {}
    BY EmptyRange DEF Init, Admitted, Rows, Distinct
<1>3. Listed
    BY <1>2 DEF Init, Listed
<1>4. \A e \in Events : \A a : ~At(e, a)
    BY EmptyRange, AuditAssumption DEF Init, At
<1>5. Apart /\ Kept
    BY <1>2, <1>4 DEF Apart, Kept
<1> QED BY <1>1, <1>3, <1>5 DEF IInv

LEMMA StutterInv == ASSUME IInv, UNCHANGED vars PROVE IInv'
<1>1. Still
    BY DEF vars, Still
<1>2. Types'
    BY DEF vars, log_vars, sink_vars, batch_vars, store, settle_vars, IInv, Types
<1>3. WriterFlow'
    BY DEF vars, log_vars, sink_vars, batch_vars, store, settle_vars, IInv, WriterFlow
<1>4. FlusherFlow'
    <2>1. Rows' = Rows
        BY DEF vars, store, Rows
    <2> QED BY <2>1 DEF vars, log_vars, sink_vars, batch_vars, settle_vars, IInv, FlusherFlow
<1> QED BY <1>1, <1>2, <1>3, <1>4, StillKeeps DEF IInv, vars

LEMMA NextInv == IInv /\ [Next]_vars => IInv'
<1> SUFFICES ASSUME IInv, [Next]_vars PROVE IInv'
    OBVIOUS
<1>1. CASE \E e \in Events : Calls(e) \/ Admits(e) \/ ReceiptTimesOut(e)
    BY <1>1, CallsKeeps, QuietKeeps
<1>2. CASE Writes \/ Panics
    BY <1>2, QuietKeeps, ReceivesKeeps, EmitsKeeps, PanicsKeeps, StrandsBufferKeeps,
       StrandsBatchKeeps, StrandsAcksKeeps, CountsStrandedKeeps DEF Writes
<1>3. CASE Works \/ TornDown
    BY <1>3, QuietKeeps, StartsKeeps, InsertsKeeps, LandsKeeps, ConfirmsKeeps, DropsKeeps,
       CountsDroppedKeeps DEF Works
<1>4. CASE Closes \/ Shuts
    BY <1>4, QuietKeeps DEF Shuts
<1>5. CASE UNCHANGED vars
    BY <1>5, StutterInv
<1> QED BY <1>1, <1>2, <1>3, <1>4, <1>5 DEF Next

\* The inductive invariant holds in every state of the specification.
THEOREM Inductive == Spec => []IInv
BY InitInv, NextInv, PTL DEF Spec

\* Once the writer has ended its flush every admitted event is a row or counted,
\* whoever settled its batch and whenever the deadline came.
THEOREM NothingLostCorrect == Spec => []NothingLostUncounted
<1>1. IInv => NothingLostUncounted
    <2> SUFFICES ASSUME IInv, writer = "done", NEW e \in Admitted
                 PROVE  e \in Rows \/ Counted(e)
        BY DEF NothingLostUncounted
    <2>1. \/ \E a : At(e, a)
          \/ e \in Rows \/ dropped[e] > 0
        BY DEF IInv, Kept
    <2>2. channel = <<>> /\ hold = NoEvent /\ buffer = <<>> /\ in_flight = {} /\ stranded = {}
        BY DEF IInv, WriterFlow
    <2>3. e \in Events /\ e # NoEvent
        BY AuditAssumption, RangeType DEF IInv, Types, Admitted
    <2>4. ASSUME NEW a, At(e, a) PROVE e \in owned
        BY <2>2, <2>3, <2>4, EmptyRange DEF At
    <2> QED BY <2>1, <2>4 DEF Counted
<1> QED BY <1>1, Inductive, PTL

-----------------------------------------------------------------------------
(* The ledger                                                                *)

LEMMA LedgerInit == Init => Ledger!Init
BY EmptyRange DEF Init, Ledger!Init, Admitted, Rows

\* Nothing the ledger shows changes.
Hidden == UNCHANGED <<log, position, dropped, answer>>

LEMMA HiddenStutters == ASSUME Hidden PROVE UNCHANGED Ledger!vars
BY DEF Hidden, Ledger!vars, Admitted, Rows

\* The waiters among S.
Waiting(S) == {e \in S \cap Required : e \in Events /\ answer[e] = "open"}

LEMMA AnsweredTells ==
    ASSUME Types, NEW S, NEW a, answer' = Answered(S, a)
    PROVE  Ledger!Tell(Waiting(S), a) /\ Waiting(S) \in SUBSET Events
BY DEF Ledger!Tell, Ledger!With, Waiting, Answered, Types

LEMMA CountGivesUp ==
    ASSUME IInv, NEW S \in SUBSET Events, NEW T, Count(S), answer' = Answered(T, "lost"),
           S \subseteq Admitted, \A e \in S : dropped[e] = 0, UNCHANGED <<log, position>>
    PROVE  Ledger!Next
<1>1. Ledger!Tell(Waiting(T), "lost") /\ Waiting(T) \in SUBSET Events
    BY AnsweredTells DEF IInv
<1>2. dropped' = Ledger!With(dropped, S, 1)
    BY DEF Count, Ledger!With, IInv, Types
<1>3. UNCHANGED <<Admitted, Rows>>
    BY DEF Admitted, Rows
<1>4. Ledger!GiveUp(S, Waiting(T))
    BY <1>1, <1>2, <1>3 DEF Ledger!GiveUp
<1> QED BY <1>1, <1>4 DEF Ledger!Next

LEMMA AnswerGivesUp ==
    ASSUME IInv, NEW T, answer' = Answered(T, "lost"), UNCHANGED <<log, position, dropped>>
    PROVE  Ledger!Next
<1>1. Count({})
    BY DEF Count, IInv, Types
<1> QED BY <1>1, CountGivesUp

\* A step that commits the batch, or does not.
LEMMA CommitWrites ==
    ASSUME IInv, Commit, UNCHANGED <<log, dropped, answer>>
    PROVE  Ledger!Next
<1>1. Rows' = Rows \cup Range(batch)
    BY CommitRows DEF IInv
<1>2. Range(batch) \in SUBSET Events /\ Range(batch) \subseteq Admitted
    BY RangeType DEF IInv, Types, Listed
<1>3. UNCHANGED Admitted
    BY DEF Admitted
<1>4. Ledger!Write(Range(batch))
    BY <1>1, <1>2, <1>3 DEF Ledger!Write
<1> QED BY <1>2, <1>4 DEF Ledger!Next

LEMMA CallsLedger ==
    ASSUME IInv, NEW e \in Events, Calls(e) \/ Admits(e)
    PROVE  [Ledger!Next]_(Ledger!vars)
<1>1. CASE Refuse(e) /\ pc[e] \in {"idle", "checked"} /\ UNCHANGED store
    <2>1. e \notin Admitted /\ dropped[e] = 0
        BY <1>1 DEF IInv, Listed
    <2>2. dropped' = [dropped EXCEPT ![e] = 1]
        <3>1. dropped \in [Events -> Nat] /\ Count({e})
            BY <1>1 DEF Refuse, IInv, Types
        <3>2. /\ DOMAIN dropped' = Events /\ dropped'[e] = 1
              /\ \A d \in Events \ {e} : dropped'[d] = dropped[d]
              /\ dropped' = [d \in Events |-> dropped'[d]]
            BY <2>1, <3>1 DEF Count
        <3> QED BY <3>1, <3>2
    <2>3. UNCHANGED <<Admitted, Rows>>
        BY <1>1 DEF Refuse, Admitted, Rows
    <2>4. Ledger!TurnAway(e)
        BY <1>1, <2>1, <2>2, <2>3 DEF Refuse, Ledger!TurnAway
    <2> QED BY <2>4 DEF Ledger!Next
<1>2. CASE Hidden
    BY <1>2, HiddenStutters
<1>3. CASE /\ pc[e] = "checked" /\ log' = Append(log, e) /\ UNCHANGED <<dropped, store>>
           /\ answer' = [answer EXCEPT ![e] = IF e \in Required THEN "open" ELSE "none"]
    <2>1. e \notin Admitted /\ dropped[e] = 0
        BY <1>3 DEF IInv, Listed
    <2>2. Admitted' = Admitted \cup {e} /\ UNCHANGED Rows
        BY <1>3, AppendRange DEF IInv, Types, Admitted, Rows
    <2>3. Ledger!TakeIn(e)
        BY <1>3, <2>1, <2>2 DEF Ledger!TakeIn
    <2> QED BY <2>3 DEF Ledger!Next
<1> QED BY <1>1, <1>2, <1>3 DEF Calls, Admits, Refuse, Hidden

LEMMA WritesLedger ==
    ASSUME IInv, Writes \/ Panics
    PROVE  [Ledger!Next]_(Ledger!vars)
<1>1. CASE Emits
    <2>1. CASE UNCHANGED <<dropped, answer>>
        BY <1>1, <2>1, HiddenStutters DEF Emits, Hidden
    <2>2. CASE Count({hold}) /\ answer' = Answered({hold}, "lost")
        <3>1. hold \in Events /\ At(hold, "hold")
            BY <1>1 DEF Emits, IInv, WriterFlow, Types, At
        <3>2. dropped[hold] = 0 /\ hold \in Admitted
            BY <3>1 DEF IInv, Apart
        <3> QED BY <1>1, <2>2, <3>1, <3>2, CountGivesUp DEF Emits
    <2> QED BY <1>1, <2>1, <2>2 DEF Emits
<1>2. CASE StrandsBuffer \/ StrandsAcks \/ Panics
    <2>1. \E T : answer' = Answered(T, "lost")
        BY <1>2 DEF StrandsBuffer, StrandsAcks, Panics
    <2>2. UNCHANGED <<log, position, dropped>>
        BY <1>2 DEF StrandsBuffer, StrandsAcks, Panics
    <2> QED BY <2>1, <2>2, AnswerGivesUp
<1>3. CASE CountsStranded
    <2>1. Count(stranded) /\ UNCHANGED <<log, position, answer>>
        BY <1>3 DEF CountsStranded
    <2>2. answer' = Answered({}, "lost")
        BY <2>1 DEF Answered, IInv, Types
    <2>3. \A e \in stranded : e \in Events /\ At(e, "stranded")
        BY DEF IInv, Types, At
    <2>4. stranded \in SUBSET Events /\ \A e \in stranded : e \in Admitted /\ dropped[e] = 0
        BY <2>3 DEF IInv, Apart
    <2> QED BY <2>1, <2>2, <2>4, CountGivesUp
<1>4. CASE Receives \/ Uncounts \/ Flushes \/ FlushReported \/ StrandsBatch
    BY <1>4, HiddenStutters
       DEF Receives, Uncounts, Flushes, FlushReported, StrandsBatch, Hidden
<1> QED BY <1>1, <1>2, <1>3, <1>4 DEF Writes

LEMMA WorksLedger ==
    ASSUME IInv, Works \/ TornDown
    PROVE  [Ledger!Next]_(Ledger!vars)
<1>1. CASE Inserts \/ TornDown
    <2>1. UNCHANGED <<log, dropped, answer>> /\ (Commit \/ UNCHANGED position)
        BY <1>1 DEF Inserts, TornDown
    <2> QED BY <2>1, CommitWrites, HiddenStutters DEF Hidden
<1>2. CASE Confirms
    <2>1. answer' = Answered(acks, "stored") /\ UNCHANGED <<log, position, dropped>>
        BY <1>2 DEF Confirms
    <2>2. Ledger!Tell(Waiting(acks), "stored") /\ Waiting(acks) \in SUBSET Events
        BY <2>1, AnsweredTells DEF IInv
    <2>3. acks \subseteq Rows
        BY <1>2 DEF IInv, FlusherFlow, Confirms
    <2>4. Waiting(acks) \subseteq Rows
        BY <2>3 DEF Waiting
    <2>5. UNCHANGED <<Admitted, Rows, dropped>>
        BY <2>1 DEF Admitted, Rows
    <2>6. Ledger!Confirm(Waiting(acks))
        BY <2>2, <2>4, <2>5 DEF Ledger!Confirm
    <2> QED BY <2>2, <2>6 DEF Ledger!Next
<1>3. CASE CountsDropped
    <2>1. Count(owned) /\ UNCHANGED <<log, position>> /\ answer' = Answered(acks, "lost")
        BY <1>3 DEF CountsDropped
    <2>2. \A e \in owned : e \in Events /\ At(e, "owned")
        BY DEF IInv, Types, At
    <2>3. owned \in SUBSET Events /\ \A e \in owned : e \in Admitted /\ dropped[e] = 0
        BY <2>2 DEF IInv, Apart
    <2> QED BY <2>1, <2>3, CountGivesUp
<1>4. CASE \/ SeesDue \/ ChecksDrained \/ Wakes \/ Starts \/ ChecksOut
           \/ Fails \/ Lands \/ Drops
    BY <1>4, HiddenStutters
       DEF SeesDue, ChecksDrained, Wakes, Starts, ChecksOut, Fails, Lands, Drops, Hidden
<1> QED BY <1>1, <1>2, <1>3, <1>4 DEF Works

LEMMA LedgerNext == IInv /\ [Next]_vars => [Ledger!Next]_(Ledger!vars)
<1> SUFFICES ASSUME IInv, [Next]_vars PROVE [Ledger!Next]_(Ledger!vars)
    OBVIOUS
<1>1. ASSUME NEW e \in Events, ReceiptTimesOut(e) PROVE Ledger!Next
    <2>1. /\ answer[e] = "open" /\ answer' = [answer EXCEPT ![e] = "timeout"]
          /\ UNCHANGED <<log, position, dropped>>
        BY <1>1 DEF ReceiptTimesOut
    <2>2. Ledger!Tell({e}, "timeout")
        BY <2>1 DEF Ledger!Tell, Ledger!With, IInv, Types
    <2>3. UNCHANGED <<Admitted, Rows, dropped>>
        BY <2>1 DEF Admitted, Rows
    <2>4. Ledger!Leave(e)
        BY <2>2, <2>3 DEF Ledger!Leave
    <2> QED BY <2>4 DEF Ledger!Next
<1>2. CASE Closes \/ Shuts \/ UNCHANGED vars
    BY <1>2, HiddenStutters DEF Closes, Shuts, DropsSender, DrainEnds, DeadlinePasses, Hidden, vars
<1> QED BY <1>1, <1>2, CallsLedger, WritesLedger, WorksLedger DEF Next

\* The pipeline implements AuditLedger: what is lost is counted once although
\* the flusher and the writer may both settle a batch, a row stands, and a
\* request is told "stored" only of a record that is committed.
THEOREM LedgerImplemented == Spec => KeepsLedger
<1>1. Spec => Ledger!Spec
    BY LedgerInit, LedgerNext, Inductive, PTL DEF Spec, Ledger!Spec
<1> QED BY <1>1 DEF KeepsLedger

-----------------------------------------------------------------------------
(* The drain                                                                 *)

\* What the sink has accepted and the store not yet, unless a loss is recorded.
Told ==
    /\ ~failure => \A e \in accepted :
          e \in Rows \/ e \in Range(buffer) \/ e \in in_flight \/ e \in owned \/ e \in stranded
    /\ writer = "done" /\ ~failure => flusher = "finished"
    /\ drain = "ok" => writer = "done" /\ accepted \subseteq Rows

LEMMA ToldCallers ==
    ASSUME IInv, Told, NEW e \in Events, Calls(e) \/ Admits(e) \/ ReceiptTimesOut(e)
    PROVE  Told'
<1>1. UNCHANGED <<writer, sink_vars, batch_vars, settle_vars, store, failure, drain>>
    BY DEF Calls, Admits, ReceiptTimesOut
<1> QED BY <1>1 DEF Told, Rows

LEMMA ToldWriter == ASSUME IInv, Told, Writes \/ Panics PROVE Told'
<1>1. UNCHANGED <<batch_vars, owned, store, drain>> /\ Rows' = Rows
    BY DEF Writes, Panics, Receives, Uncounts, Emits, Flushes, FlushReported, StrandsBuffer,
           StrandsBatch, StrandsAcks, CountsStranded, Rows
<1>2. CASE Receives \/ Uncounts \/ Panics \/ Flushes \/ StrandsAcks
    BY <1>1, <1>2 DEF Told, Receives, Uncounts, Panics, Flushes, StrandsAcks
<1>3. CASE Emits
    <2>1. CASE UNCHANGED <<buffer, accepted>>
        BY <1>1, <1>3, <2>1 DEF Told, Emits
    <2>2. CASE buffer' = Append(buffer, hold) /\ accepted' = accepted \cup {hold}
        <3>1. hold \in Events
            BY <1>3 DEF Emits, IInv, WriterFlow, Types
        <3>2. Range(buffer') = Range(buffer) \cup {hold}
            BY <2>2, <3>1, AppendRange DEF IInv, Types
        <3> QED BY <1>1, <1>3, <2>2, <3>2 DEF Told, Emits
    <2> QED BY <1>3, <2>1, <2>2 DEF Emits
<1>4. CASE FlushReported
    BY <1>1, <1>4 DEF Told, FlushReported
<1>5. CASE StrandsBuffer
    BY <1>1, <1>5 DEF Told, StrandsBuffer, IInv, WriterFlow
<1>6. CASE StrandsBatch
    BY <1>1, <1>6 DEF Told, StrandsBatch
<1>7. CASE CountsStranded
    BY <1>1, <1>7 DEF Told, CountsStranded
<1> QED BY <1>2, <1>3, <1>4, <1>5, <1>6, <1>7 DEF Writes

LEMMA ToldFlusher == ASSUME IInv, Told, Works \/ TornDown PROVE Told'
<1>0. UNCHANGED <<writer, accepted, stranded, drain>> /\ flusher # "finished"
    BY DEF Works, TornDown, SeesDue, ChecksDrained, Wakes, Starts, ChecksOut, Inserts, Fails, Lands,
           Confirms, Drops, CountsDropped
<1>1. CASE SeesDue \/ ChecksDrained \/ Wakes \/ Fails \/ Confirms
    BY <1>0, <1>1 DEF Told, Rows, SeesDue, ChecksDrained, Wakes, Fails, Confirms
<1>2. CASE Starts \/ ChecksOut
    <2>1. UNCHANGED <<store, owned, failure>> /\ Rows' = Rows
        BY <1>2 DEF Starts, ChecksOut, Rows
    <2>2. CASE TakesBatch
        <3>1. in_flight \cup Range(buffer) = in_flight' \cup Range(buffer')
            BY <1>2, <2>2, TakesBatchFacts DEF Starts, ChecksOut
        <3> QED BY <1>0, <2>1, <3>1 DEF Told
    <2>3. CASE UNCHANGED <<buffer, in_flight>>
        BY <1>0, <2>1, <2>3 DEF Told
    <2> QED BY <1>2, <2>2, <2>3 DEF Starts, ChecksOut
<1>3. CASE Inserts \/ TornDown
    <2>1. Rows \subseteq Rows'
        BY <1>3, CommitRows DEF Inserts, TornDown, IInv, Rows
    <2>2. UNCHANGED <<buffer, in_flight, owned, failure>>
        BY <1>3 DEF Inserts, TornDown
    <2> QED BY <1>0, <2>1, <2>2 DEF Told
<1>4. CASE Lands
    <2>1. in_flight \subseteq Rows /\ Rows' = Rows
        BY <1>4 DEF Lands, IInv, FlusherFlow, Rows
    <2> QED BY <1>0, <1>4, <2>1 DEF Told, Lands
<1>5. CASE Drops
    <2>1. owned = {} /\ Rows' = Rows
        BY <1>5 DEF Drops, IInv, FlusherFlow, Rows
    <2> QED BY <1>0, <1>5, <2>1 DEF Told, Drops
<1>6. CASE CountsDropped
    BY <1>0, <1>6 DEF Told, CountsDropped, Rows
<1> QED BY <1>1, <1>2, <1>3, <1>4, <1>5, <1>6 DEF Works

LEMMA ToldDrain == ASSUME IInv, Told, Closes \/ Shuts PROVE Told'
<1>1. UNCHANGED <<writer, sink_vars, batch_vars, settle_vars, store, failure>>
    BY DEF Closes, Shuts, DropsSender, DrainEnds, DeadlinePasses
<1>2. CASE drain' = "ok" /\ drain # "ok"
    <2>1. writer = "done" /\ ~failure
        BY <1>2 DEF Closes, Shuts, DropsSender, DrainEnds, DeadlinePasses
    <2>2. flusher = "finished"
        BY <2>1 DEF Told
    <2>3. buffer = <<>> /\ in_flight = {} /\ owned = {} /\ stranded = {}
        BY <2>1, <2>2 DEF IInv, WriterFlow, FlusherFlow
    <2>4. accepted \subseteq Rows
        BY <2>1, <2>3, EmptyRange DEF Told
    <2> QED BY <1>1, <2>1, <2>4 DEF Told, Rows
<1>3. CASE drain' # "ok" \/ drain' = drain
    BY <1>1, <1>3 DEF Told, Rows
<1> QED BY <1>2, <1>3

LEMMA ToldNext == IInv /\ Told /\ [Next]_vars => Told'
<1> SUFFICES ASSUME IInv, Told, [Next]_vars PROVE Told'
    OBVIOUS
<1>1. CASE UNCHANGED vars
    BY <1>1 DEF Told, Rows, vars
<1> QED BY <1>1, ToldCallers, ToldWriter, ToldFlusher, ToldDrain DEF Next

\* A drain that reports success has every event the sink ever accepted in the
\* store.
THEOREM DrainCorrect == Spec => []DrainTellsLoss
<1>1. Init => Told
    BY DEF Init, Told
<1>2. Told => DrainTellsLoss
    BY DEF Told, DrainTellsLoss
<1> QED BY <1>1, <1>2, ToldNext, Inductive, PTL DEF Spec

-----------------------------------------------------------------------------
(* The order of the stream                                                   *)

Before(l, d, e) == \E k, m \in DOMAIN l : k < m /\ l[k] = d /\ l[m] = e

Line(l, s) == \A i, j \in DOMAIN s : i < j => Before(l, s[i], s[j])

\* How far an event has come on its way to the store.
Stage(e, n) ==
    \/ n = 4 /\ e \in Range(channel)
    \/ n = 3 /\ e = hold
    \/ n = 2 /\ e \in Range(buffer)
    \/ n = 1 /\ e \in Range(batch)
    \/ n = 0 /\ e \in Rows /\ e \notin Range(batch)

\* Whoever has come further was admitted earlier.
StageOrder == \A d, e \in Events, m, n \in 0..4 :
    Stage(d, m) /\ Stage(e, n) /\ m < n => Before(log, d, e) /\ d # e

Lines == Line(log, channel) /\ Line(log, buffer) /\ Line(log, batch)

\* A batch is in the store as a whole or not at all.
Whole == Range(batch) \subseteq Rows \/ Range(batch) \cap Rows = {}

Positions == \A e \in Events : position[e] <= last_position

OInv == StageOrder /\ Lines /\ Whole /\ Positions /\ StreamInOrder

LEMMA LineTail ==
    ASSUME NEW l, NEW S, NEW s \in Seq(S), s # <<>>, Line(l, s)
    PROVE  Line(l, Tail(s)) /\ \A e \in Range(Tail(s)) : Before(l, Head(s), e)
<1>1. /\ Tail(s) \in Seq(S) /\ Len(s) \in Nat \ {0}
      /\ DOMAIN s = 1..Len(s) /\ DOMAIN Tail(s) = 1..(Len(s) - 1)
      /\ Head(s) = s[1] /\ \A i \in 1..(Len(s) - 1) : Tail(s)[i] = s[i + 1]
    OBVIOUS
<1>2. ASSUME NEW i \in DOMAIN Tail(s), NEW j \in DOMAIN Tail(s), i < j
      PROVE  Before(l, Tail(s)[i], Tail(s)[j])
    <2>1. i + 1 \in DOMAIN s /\ j + 1 \in DOMAIN s /\ i + 1 < j + 1
        BY <1>1, <1>2
    <2>2. Before(l, s[i + 1], s[j + 1])
        BY <2>1 DEF Line
    <2> QED BY <1>1, <2>2
<1>3. ASSUME NEW i \in DOMAIN Tail(s) PROVE Before(l, Head(s), Tail(s)[i])
    <2>1. 1 \in DOMAIN s /\ i + 1 \in DOMAIN s /\ 1 < i + 1
        BY <1>1
    <2>2. Before(l, s[1], s[i + 1])
        BY <2>1 DEF Line
    <2> QED BY <1>1, <2>2
<1> QED BY <1>2, <1>3 DEF Line, Range

LEMMA LineAppend ==
    ASSUME NEW l, NEW S, NEW s \in Seq(S), NEW e \in S, Line(l, s), \A d \in Range(s) : Before(l, d, e)
    PROVE  Line(l, Append(s, e))
<1>1. /\ DOMAIN s = 1..Len(s) /\ DOMAIN Append(s, e) = 1..(Len(s) + 1) /\ Len(s) \in Nat
      /\ \A i \in 1..Len(s) : Append(s, e)[i] = s[i]
      /\ Append(s, e)[Len(s) + 1] = e
    OBVIOUS
<1>2. ASSUME NEW i \in 1..(Len(s) + 1), NEW j \in 1..(Len(s) + 1), i < j
      PROVE  Before(l, Append(s, e)[i], Append(s, e)[j])
    <2>1. i \in 1..Len(s)
        BY <1>1, <1>2
    <2>2. CASE j \in 1..Len(s)
        BY <1>1, <1>2, <2>1, <2>2 DEF Line
    <2>3. CASE j = Len(s) + 1
        <3>1. s[i] \in Range(s)
            BY <1>1, <2>1 DEF Range
        <3> QED BY <1>1, <2>1, <2>3, <3>1
    <2> QED BY <1>1, <2>2, <2>3
<1> QED BY <1>1, <1>2 DEF Line

LEMMA LineSplit ==
    ASSUME NEW l, NEW S, NEW s \in Seq(S), NEW n \in 0..Len(s), Line(l, s)
    PROVE  /\ Line(l, SubSeq(s, 1, n)) /\ Line(l, SubSeq(s, n + 1, Len(s)))
           /\ \A d \in Range(SubSeq(s, 1, n)), e \in Range(SubSeq(s, n + 1, Len(s))) : Before(l, d, e)
<1> DEFINE a == SubSeq(s, 1, n)
           b == SubSeq(s, n + 1, Len(s))
<1>1. /\ Len(s) \in Nat /\ DOMAIN s = 1..Len(s)
      /\ a \in Seq(S) /\ DOMAIN a = 1..n /\ \A i \in 1..n : a[i] = s[i]
      /\ b \in Seq(S) /\ DOMAIN b = 1..(Len(s) - n) /\ \A i \in 1..(Len(s) - n) : b[i] = s[n + i]
    BY SubSeqProperties
<1> HIDE DEF a, b
<1>2. Line(l, a)
    BY <1>1 DEF Line
<1>3. ASSUME NEW i \in 1..(Len(s) - n), NEW j \in 1..(Len(s) - n), i < j
      PROVE  Before(l, b[i], b[j])
    <2>1. n + i \in DOMAIN s /\ n + j \in DOMAIN s /\ n + i < n + j
        BY <1>1, <1>3
    <2>2. Before(l, s[n + i], s[n + j])
        BY <2>1 DEF Line
    <2> QED BY <1>1, <2>2
<1>4. ASSUME NEW i \in 1..n, NEW j \in 1..(Len(s) - n) PROVE Before(l, a[i], b[j])
    <2>1. i \in DOMAIN s /\ n + j \in DOMAIN s /\ i < n + j
        BY <1>1
    <2>2. Before(l, s[i], s[n + j])
        BY <2>1 DEF Line
    <2> QED BY <1>1, <2>2
<1>5. Line(l, b)
    BY <1>1, <1>3 DEF Line
<1>6. \A d \in Range(a), e \in Range(b) : Before(l, d, e)
    BY <1>1, <1>4 DEF Range
<1> QED BY <1>2, <1>5, <1>6 DEF a, b

\* Events may leave, or go from the batch to the store.
LEMMA OrderKept ==
    ASSUME StageOrder, UNCHANGED log,
           \A d \in Events, n \in 0..4 : Stage(d, n)' =>
               Stage(d, n) \/ (n = 0 /\ Stage(d, 1) /\ batch' = <<>>)
    PROVE  StageOrder'
<1>1. ASSUME NEW d \in Events, NEW e \in Events, NEW m \in 0..4, NEW n \in 0..4,
             Stage(d, m)', Stage(e, n)', m < n
      PROVE  Before(log, d, e) /\ d # e
    <2>1. Stage(e, n)
        BY <1>1
    <2>2. CASE Stage(d, m)
        BY <1>1, <2>1, <2>2 DEF StageOrder
    <2>3. CASE m = 0 /\ Stage(d, 1) /\ batch' = <<>>
        <3>1. n # 1
            BY <1>1, <2>3, EmptyRange DEF Stage
        <3> QED BY <1>1, <2>1, <2>3, <3>1 DEF StageOrder
    <2> QED BY <1>1, <2>2, <2>3
<1> QED BY <1>1 DEF StageOrder

\* A step that moves nothing to another stage, or lets events go.
LEMMA OrderLeaves ==
    ASSUME IInv, OInv, UNCHANGED <<log, position, last_position>>,
           channel' = channel \/ channel' = <<>>,
           hold' = hold \/ hold' = NoEvent,
           buffer' = buffer \/ buffer' = <<>>,
           batch' = batch \/ batch' = <<>>
    PROVE  OInv'
<1>1. \A d \in Events, n \in 0..4 : Stage(d, n)' =>
          Stage(d, n) \/ (n = 0 /\ Stage(d, 1) /\ batch' = <<>>)
    BY EmptyRange, AuditAssumption DEF Stage, Rows
<1>2. StageOrder'
    BY <1>1, OrderKept DEF OInv
<1>3. \A l : Line(l, <<>>)
    BY DEF Line
<1>4. Lines'
    BY <1>3 DEF OInv, Lines
<1>5. Whole' /\ Positions' /\ StreamInOrder'
    BY EmptyRange DEF OInv, Whole, Positions, StreamInOrder, Rows
<1> QED BY <1>2, <1>4, <1>5 DEF OInv

LEMMA AdmitsOrder ==
    ASSUME IInv, OInv, NEW e \in Events, pc[e] = "checked",
           log' = Append(log, e), channel' = Append(channel, e),
           UNCHANGED <<hold, buffer, batch, position, last_position>>
    PROVE  OInv'
<1>1. /\ log \in Seq(Events) /\ channel \in Seq(Events)
      /\ e \notin Admitted /\ Range(channel') = Range(channel) \cup {e}
    BY AppendRange DEF IInv, Types, Listed
<1>2. \A c, d : Before(log, c, d) => Before(log', c, d)
    <2>1. \A k \in DOMAIN log : k \in DOMAIN log' /\ log'[k] = log[k]
        BY <1>1
    <2> QED BY <2>1 DEF Before
<1>3. ASSUME NEW d \in Admitted PROVE Before(log', d, e)
    <2>1. PICK k \in 1..Len(log) : log[k] = d
        BY <1>1 DEF Admitted, Range
    <2>2. /\ k \in DOMAIN log' /\ Len(log) + 1 \in DOMAIN log' /\ k < Len(log) + 1
          /\ log'[k] = d /\ log'[Len(log) + 1] = e
        BY <1>1, <2>1
    <2> QED BY <2>2 DEF Before
<1>4. ASSUME NEW d \in Events, NEW n \in 0..4, Stage(d, n) PROVE d \in Admitted
    <2>1. CASE n \in {0, 1}
        BY <1>4, <2>1 DEF Stage, IInv, Listed
    <2>2. CASE n \in {2, 3, 4}
        <3>1. At(d, "channel") \/ At(d, "hold") \/ At(d, "buffer")
            BY <1>4, <2>2 DEF Stage, At
        <3> QED BY <3>1 DEF IInv, Apart
    <2> QED BY <2>1, <2>2
<1>5. \A d \in Events, n \in 0..4 : Stage(d, n)' => Stage(d, n) \/ (d = e /\ n = 4)
    BY <1>1 DEF Stage, Rows
<1>6. StageOrder'
    <2>1. ASSUME NEW c \in Events, NEW d \in Events, NEW m \in 0..4, NEW n \in 0..4,
                 Stage(c, m)', Stage(d, n)', m < n
          PROVE  Before(log', c, d) /\ c # d
        <3>1. Stage(c, m)
            BY <1>5, <2>1
        <3>2. CASE Stage(d, n)
            BY <1>2, <2>1, <3>1, <3>2 DEF OInv, StageOrder
        <3>3. CASE d = e
            BY <1>1, <1>3, <1>4, <3>1, <3>3
        <3> QED BY <1>5, <2>1, <3>2, <3>3
    <2> QED BY <2>1 DEF StageOrder
<1>7. Lines'
    <2>1. \A t : Line(log, t) => Line(log', t)
        BY <1>2 DEF Line
    <2>2. \A d \in Range(channel) : Before(log', d, e)
        <3>1. \A d \in Range(channel) : d \in Events /\ Stage(d, 4)
            BY <1>1, RangeType DEF Stage
        <3> QED BY <1>3, <1>4, <3>1
    <2>3. Line(log', channel')
        BY <1>1, <2>1, <2>2, LineAppend DEF OInv, Lines
    <2> QED BY <2>1, <2>3 DEF OInv, Lines
<1>8. Whole' /\ Positions'
    BY DEF OInv, Whole, Positions, Rows
<1>9. StreamInOrder'
    <2>1. \A c, d \in Rows : c # d /\ position[c] <= position[d] => Before(log', c, d)
        BY <1>2 DEF OInv, StreamInOrder, Before
    <2> QED BY <2>1 DEF StreamInOrder, Before, Rows
<1> QED BY <1>6, <1>7, <1>8, <1>9 DEF OInv

LEMMA ReceivesOrder == ASSUME IInv, OInv, Receives PROVE OInv'
<1>1. /\ hold = NoEvent /\ channel \in Seq(Events)
      /\ channel # <<>> /\ hold' = Head(channel) /\ channel' = Tail(channel)
      /\ UNCHANGED <<log, buffer, batch, position, last_position>>
    BY DEF Receives, IInv, WriterFlow, Types
<1>2. /\ Range(channel) = Range(channel') \cup {hold'} /\ hold' \notin Range(channel')
      /\ Line(log, channel') /\ \A e \in Range(channel') : Before(log, hold', e)
    BY <1>1, TailRange, LineTail DEF IInv, Listed, OInv, Lines
<1>3. \A d \in Events, n \in 0..4 : Stage(d, n)' =>
          \/ Stage(d, n) /\ n # 3 /\ (n = 4 => d \in Range(channel'))
          \/ (n = 3 /\ d = hold' /\ Stage(d, 4))
    BY <1>1, <1>2 DEF Stage, Rows
<1>4. StageOrder'
    <2>1. ASSUME NEW c \in Events, NEW d \in Events, NEW m \in 0..4, NEW n \in 0..4,
                 Stage(c, m)', Stage(d, n)', m < n
          PROVE  Before(log', c, d) /\ c # d
        <3>1. CASE m = 3
            <4>1. c = hold' /\ d \in Range(channel')
                BY <1>3, <2>1, <3>1
            <4> QED BY <1>1, <1>2, <4>1
        <3>2. CASE m # 3
            <4>1. Stage(c, m) /\ m # 4
                BY <1>3, <2>1, <3>2
            <4>2. Stage(d, n) \/ (n = 3 /\ Stage(d, 4))
                BY <1>3, <2>1
            <4> QED BY <1>1, <2>1, <4>1, <4>2 DEF OInv, StageOrder
        <3> QED BY <3>1, <3>2
    <2> QED BY <2>1 DEF StageOrder
<1>5. Lines' /\ Whole' /\ Positions' /\ StreamInOrder'
    BY <1>1, <1>2 DEF OInv, Lines, Whole, Positions, StreamInOrder, Rows
<1> QED BY <1>4, <1>5 DEF OInv

LEMMA EmitsOrder == ASSUME IInv, OInv, Emits PROVE OInv'
<1>1. /\ hold \in Events /\ hold' = NoEvent
      /\ UNCHANGED <<log, channel, batch, position, last_position>>
    BY DEF Emits, IInv, WriterFlow, Types
<1>2. CASE buffer' = buffer
    BY <1>1, <1>2, OrderLeaves
<1>3. CASE buffer' = Append(buffer, hold)
    <2>1. buffer \in Seq(Events) /\ Range(buffer') = Range(buffer) \cup {hold}
        BY <1>1, <1>3, AppendRange DEF IInv, Types
    <2>2. \A d \in Range(buffer) : Before(log, d, hold)
        <3>1. \A d \in Range(buffer) : d \in Events /\ Stage(d, 2) /\ Stage(hold, 3)
            BY <2>1, RangeType DEF Stage
        <3> QED BY <1>1, <3>1 DEF OInv, StageOrder
    <2>3. \A d \in Events, n \in 0..4 : Stage(d, n)' =>
              n # 3 /\ (Stage(d, n) \/ (n = 2 /\ Stage(d, 3)))
        BY <1>1, <2>1, AuditAssumption DEF Stage, Rows
    <2>4. StageOrder'
        <3>1. ASSUME NEW c \in Events, NEW d \in Events, NEW m \in 0..4, NEW n \in 0..4,
                     Stage(c, m)', Stage(d, n)', m < n
              PROVE  Before(log', c, d) /\ c # d
            <4>1. m # 3 /\ n # 3
                BY <2>3, <3>1
            <4>2. (Stage(c, m) \/ (m = 2 /\ Stage(c, 3))) /\ (Stage(d, n) \/ (n = 2 /\ Stage(d, 3)))
                BY <2>3, <3>1
            <4> QED BY <1>1, <3>1, <4>1, <4>2 DEF OInv, StageOrder
        <3> QED BY <3>1 DEF StageOrder
    <2>5. Lines'
        BY <1>1, <1>3, <2>1, <2>2, LineAppend DEF OInv, Lines
    <2>6. Whole' /\ Positions' /\ StreamInOrder'
        BY <1>1 DEF OInv, Whole, Positions, StreamInOrder, Rows
    <2> QED BY <2>4, <2>5, <2>6 DEF OInv
<1> QED BY <1>2, <1>3 DEF Emits

LEMMA TakesOrder ==
    ASSUME IInv, OInv, TakesBatch, UNCHANGED <<log, channel, hold, position, last_position>>
    PROVE  OInv'
<1>1. CASE batch # <<>>
    BY <1>1, OrderLeaves DEF TakesBatch
<1>2. CASE batch = <<>>
    <2> DEFINE n == IF Len(buffer) <= BatchSize THEN Len(buffer) ELSE BatchSize
    <2>1. batch' = SubSeq(buffer, 1, n) /\ buffer' = SubSeq(buffer, n + 1, Len(buffer))
        BY <1>2 DEF TakesBatch
    <2>2. buffer \in Seq(Events) /\ n \in 0..Len(buffer)
        BY AuditAssumption DEF IInv, Types
    <2> HIDE DEF n
    <2>3. /\ Range(buffer) = Range(batch') \cup Range(buffer')
          /\ Range(batch') \cap Range(buffer') = {}
        BY <2>1, <2>2, SplitRange DEF IInv, Listed
    <2>4. /\ Line(log, batch') /\ Line(log, buffer')
          /\ \A d \in Range(batch'), e \in Range(buffer') : Before(log, d, e)
        BY <2>1, <2>2, LineSplit DEF OInv, Lines
    <2>5. \A d \in Events, k \in 0..4 : Stage(d, k)' =>
              \/ Stage(d, k) /\ k # 1 /\ (k = 2 => d \in Range(buffer'))
              \/ (k = 1 /\ Stage(d, 2) /\ d \in Range(batch'))
        BY <1>2, <2>3, EmptyRange DEF Stage, Rows
    <2>6. StageOrder'
        <3>1. ASSUME NEW c \in Events, NEW d \in Events, NEW j \in 0..4, NEW k \in 0..4,
                     Stage(c, j)', Stage(d, k)', j < k
              PROVE  Before(log', c, d) /\ c # d
            <4>1. CASE j = 1 /\ k = 2
                <5>1. c \in Range(batch') /\ d \in Range(buffer')
                    BY <2>5, <3>1, <4>1
                <5> QED BY <2>3, <2>4, <5>1
            <4>2. CASE ~(j = 1 /\ k = 2)
                <5>1. \/ Stage(c, j) /\ j # 1
                      \/ (j = 1 /\ Stage(c, 2))
                    BY <2>5, <3>1
                <5>2. \/ Stage(d, k) /\ k # 1
                      \/ (k = 1 /\ Stage(d, 2))
                    BY <2>5, <3>1
                <5> QED BY <3>1, <4>2, <5>1, <5>2 DEF OInv, StageOrder
            <4> QED BY <4>1, <4>2
        <3> QED BY <3>1 DEF StageOrder
    <2>7. Whole'
        <3>1. ASSUME NEW e \in Range(batch'), e \in Rows PROVE FALSE
            <4>1. e \in Events /\ Stage(e, 2) /\ Stage(e, 0)
                BY <1>2, <2>2, <2>3, <3>1, RangeType, EmptyRange DEF Stage
            <4> QED BY <4>1 DEF OInv, StageOrder
        <3> QED BY <3>1 DEF Whole, Rows
    <2>8. Lines' /\ Positions' /\ StreamInOrder'
        BY <2>4 DEF OInv, Lines, Positions, StreamInOrder, Rows
    <2> QED BY <2>6, <2>7, <2>8 DEF OInv
<1> QED BY <1>1, <1>2

\* Row numbers rise with the place in the batch and stay within the reservation.
LEMMA RowNumbers ==
    ASSUME Types
    PROVE  /\ Pending \subseteq Int /\ Cardinality(Pending) \in Nat
           /\ \A i \in Pending : RowNumber(i) \in 1..Cardinality(Pending)
           /\ \A i, j \in Pending : i < j => RowNumber(i) < RowNumber(j)
<1>1. Pending \in SUBSET (1..Len(batch)) /\ Len(batch) \in Nat
    BY DEF Pending, Types
<1>2. IsFiniteSet(Pending) /\ Cardinality(Pending) \in Nat /\ Pending \subseteq Int
    <2>1. IsFiniteSet(1..Len(batch))
        BY <1>1, FS_Interval
    <2>2. IsFiniteSet(Pending)
        BY <1>1, <2>1, FS_Subset
    <2> QED BY <1>1, <2>2, FS_CardinalityType
<1> DEFINE Upto(i) == {k \in Pending : k <= i}
<1>3. \A i \in Pending : /\ IsFiniteSet(Upto(i)) /\ Cardinality(Upto(i)) \in Nat
                         /\ Cardinality(Upto(i)) <= Cardinality(Pending)
    BY <1>2, FS_Subset, FS_CardinalityType
<1>4. ASSUME NEW i \in Pending PROVE RowNumber(i) \in 1..Cardinality(Pending)
    <2>1. i \in Upto(i)
        BY <1>1
    <2>2. Cardinality(Upto(i)) # 0
        BY <1>3, <2>1, FS_EmptySet
    <2> QED BY <1>2, <1>3, <2>2 DEF RowNumber
<1>5. ASSUME NEW i \in Pending, NEW j \in Pending, i < j PROVE RowNumber(i) < RowNumber(j)
    <2>0. i \in Int /\ j \in Int /\ \A k \in Pending : k \in Int
        BY <1>2
    <2>1. Upto(i) \in SUBSET Upto(j) /\ j \in Upto(j) /\ j \notin Upto(i)
        <3>1. ASSUME NEW k \in Pending, k <= i PROVE k <= j
            <4>1. k \in Int
                BY <2>0
            <4> QED BY <1>5, <2>0, <3>1, <4>1
        <3>2. j <= j /\ ~(j <= i)
            BY <1>5, <2>0
        <3> QED BY <3>1, <3>2
    <2>2. Upto(i) # Upto(j)
        BY <2>1
    <2>3. IsFiniteSet(Upto(j))
        BY <1>3
    <2> HIDE DEF Upto
    <2>4. Cardinality(Upto(i)) <= Cardinality(Upto(j)) /\ Cardinality(Upto(j)) # Cardinality(Upto(i))
        BY <2>1, <2>2, <2>3, FS_Subset
    <2>5. Cardinality(Upto(i)) < Cardinality(Upto(j))
        BY <1>3, <2>4
    <2> QED BY <2>5 DEF RowNumber, Upto
<1> QED BY <1>1, <1>2, <1>4, <1>5

LEMMA CommitPositions ==
    ASSUME IInv, OInv, Commit, UNCHANGED log
    PROVE  Positions' /\ StreamInOrder'
<1>0. Types /\ batch \in Seq(Events)
    BY DEF IInv, Types
<1>1. /\ Rows' = Rows \cup Range(batch)
      /\ position' \in [Events -> Nat] /\ last_position' \in Nat
    BY <1>0, CommitRows
<1>4. /\ Pending \subseteq Int /\ Cardinality(Pending) \in Nat /\ last_position \in Nat
      /\ \A i \in Pending : RowNumber(i) \in 1..Cardinality(Pending)
      /\ \A i, j \in Pending : i < j => RowNumber(i) < RowNumber(j)
      /\ last_position' = last_position + Cardinality(Pending)
      /\ \A e \in Events : position[e] \in Nat /\ position[e] <= last_position
    BY <1>0, RowNumbers DEF Commit, Types, OInv, Positions
<1> DEFINE New(e) == \E i \in Pending : batch[i] = e
<1>5. ASSUME NEW e \in Events, New(e)
      PROVE  \E i \in Pending : batch[i] = e /\ position'[e] = last_position + RowNumber(i)
    BY <1>5 DEF Commit
<1>6. ASSUME NEW e \in Events, ~New(e) PROVE position'[e] = position[e]
    BY <1>6 DEF Commit
<1>7. \A e \in Events : New(e) <=> e \in Range(batch) /\ e \notin Rows
    BY DEF Pending, Range
<1> HIDE DEF New
<1>8. Positions'
    <2>1. ASSUME NEW e \in Events PROVE position'[e] <= last_position'
        <3>1. CASE New(e)
            <4>1. PICK i \in Pending : position'[e] = last_position + RowNumber(i)
                BY <1>5, <3>1
            <4>2. RowNumber(i) \in 1..Cardinality(Pending)
                BY <1>4
            <4> QED BY <1>4, <4>1, <4>2
        <3>2. CASE ~New(e)
            BY <1>4, <1>6, <3>2
        <3> QED BY <3>1, <3>2
    <2> QED BY <2>1 DEF Positions
<1>9. ASSUME NEW c \in Rows', NEW d \in Rows', c # d, position'[c] <= position'[d]
      PROVE  Before(log, c, d)
    <2>0. c \in Events /\ d \in Events
        BY DEF Rows
    <2>1. CASE ~New(c) /\ ~New(d)
        <3>1. c \in Rows /\ d \in Rows
            BY <1>1, <1>7, <2>0, <2>1
        <3>2. position[c] <= position[d]
            BY <1>6, <1>9, <2>0, <2>1
        <3> QED BY <1>9, <3>1, <3>2 DEF OInv, StreamInOrder, Before
    <2>2. CASE ~New(c) /\ New(d)
        <3>1. c \in Rows /\ d \in Range(batch) /\ d \notin Rows
            BY <1>1, <1>7, <2>0, <2>2
        <3>2. c \notin Range(batch)
            BY <3>1 DEF OInv, Whole
        <3>3. Stage(c, 0) /\ Stage(d, 1)
            BY <3>1, <3>2 DEF Stage
        <3> QED BY <2>0, <3>3 DEF OInv, StageOrder
    <2>3. CASE New(c) /\ ~New(d)
        <3>1. PICK i \in Pending : position'[c] = last_position + RowNumber(i)
            BY <1>5, <2>0, <2>3
        <3>2. RowNumber(i) \in 1..Cardinality(Pending)
            BY <1>4
        <3>3. position'[d] = position[d] /\ position[d] \in Nat /\ position[d] <= last_position
            BY <1>4, <1>6, <2>0, <2>3
        <3> QED BY <1>4, <1>9, <3>1, <3>2, <3>3
    <2>4. CASE New(c) /\ New(d)
        <3>1. PICK i \in Pending : batch[i] = c /\ position'[c] = last_position + RowNumber(i)
            BY <1>5, <2>0, <2>4
        <3>2. PICK j \in Pending : batch[j] = d /\ position'[d] = last_position + RowNumber(j)
            BY <1>5, <2>0, <2>4
        <3>3. i \in Int /\ j \in Int /\ RowNumber(i) \in Int /\ RowNumber(j) \in Int
            BY <1>4
        <3>4. RowNumber(i) <= RowNumber(j)
            BY <1>4, <1>9, <3>1, <3>2, <3>3
        <3>5. j < i => RowNumber(j) < RowNumber(i)
            BY <1>4
        <3>6. i < j
            BY <1>9, <3>1, <3>2, <3>3, <3>4, <3>5
        <3>7. i \in DOMAIN batch /\ j \in DOMAIN batch
            BY DEF Pending
        <3> QED BY <3>1, <3>2, <3>6, <3>7 DEF OInv, Lines, Line
    <2> QED BY <2>1, <2>2, <2>3, <2>4
<1>10. StreamInOrder'
    BY <1>9 DEF StreamInOrder, Before
<1> QED BY <1>8, <1>10

LEMMA CommitOrder ==
    ASSUME IInv, OInv, Commit, UNCHANGED <<log, channel, hold, buffer, batch>>
    PROVE  OInv'
<1>1. Rows' = Rows \cup Range(batch)
    BY CommitRows DEF IInv
<1>2. StageOrder'
    <2>1. \A d \in Events, n \in 0..4 : Stage(d, n)' => Stage(d, n)
        BY <1>1 DEF Stage
    <2> QED BY <2>1, OrderKept DEF OInv
<1>3. Lines' /\ Whole'
    BY <1>1 DEF OInv, Lines, Whole
<1> QED BY <1>2, <1>3, CommitPositions DEF OInv

LEMMA OrderNext == IInv /\ OInv /\ [Next]_vars => OInv'
<1> SUFFICES ASSUME IInv, OInv, [Next]_vars PROVE OInv'
    OBVIOUS
<1>1. ASSUME NEW e \in Events, Calls(e) \/ Admits(e) \/ ReceiptTimesOut(e) PROVE OInv'
    <2>1. CASE /\ pc[e] = "checked" /\ log' = Append(log, e) /\ channel' = Append(channel, e)
               /\ UNCHANGED <<hold, buffer, batch, position, last_position>>
        BY <2>1, AdmitsOrder
    <2>2. CASE UNCHANGED <<log, channel, hold, buffer, batch, position, last_position>>
        BY <2>2, OrderLeaves
    <2> QED BY <1>1, <2>1, <2>2 DEF Calls, Admits, ReceiptTimesOut, Refuse
<1>2. CASE Writes \/ Panics
    <2>1. CASE Receives \/ Emits
        BY <2>1, ReceivesOrder, EmitsOrder
    <2>2. CASE \/ Uncounts \/ Flushes \/ FlushReported \/ Panics
               \/ StrandsBuffer \/ StrandsBatch \/ StrandsAcks \/ CountsStranded
        BY <2>2, OrderLeaves
           DEF Uncounts, Flushes, FlushReported, Panics, StrandsBuffer, StrandsBatch, StrandsAcks,
               CountsStranded
    <2> QED BY <1>2, <2>1, <2>2 DEF Writes
<1>3. CASE Starts \/ ChecksOut
    BY <1>3, TakesOrder, OrderLeaves DEF Starts, ChecksOut
<1>4. CASE Inserts
    BY <1>4, CommitOrder, OrderLeaves DEF Inserts
<1>5. CASE TornDown
    <2>1. UNCHANGED <<log, channel, hold, buffer>> /\ batch' = <<>> /\ (Commit \/ UNCHANGED store)
        BY <1>5 DEF TornDown
    <2>2. CASE UNCHANGED store
        BY <2>1, <2>2, OrderLeaves
    <2>3. CASE Commit
        <3>1. Rows' = Rows \cup Range(batch)
            BY <2>3, CommitRows DEF IInv
        <3>2. \A d \in Events, n \in 0..4 : Stage(d, n)' =>
                  Stage(d, n) \/ (n = 0 /\ Stage(d, 1) /\ batch' = <<>>)
            BY <2>1, <3>1, EmptyRange DEF Stage
        <3>3. StageOrder'
            BY <2>1, <3>2, OrderKept DEF OInv
        <3>4. Lines' /\ Whole'
            BY <2>1, EmptyRange DEF OInv, Lines, Line, Whole
        <3>5. Positions' /\ StreamInOrder'
            BY <2>1, <2>3, CommitPositions
        <3> QED BY <3>3, <3>4, <3>5 DEF OInv
    <2> QED BY <2>1, <2>2, <2>3
<1>6. CASE SeesDue \/ ChecksDrained \/ Wakes \/ Fails \/ Lands \/ Confirms \/ Drops \/ CountsDropped
    BY <1>6, OrderLeaves
       DEF SeesDue, ChecksDrained, Wakes, Fails, Lands, Confirms, Drops, CountsDropped
<1>7. CASE Closes \/ Shuts \/ UNCHANGED vars
    BY <1>7, OrderLeaves DEF Closes, Shuts, DropsSender, DrainEnds, DeadlinePasses, vars
<1> QED BY <1>1, <1>2, <1>3, <1>4, <1>5, <1>6, <1>7 DEF Next, Works

\* The stream holds the events in the order of their admission, whatever was
\* refused, dropped, repeated or left unreported.
THEOREM OrderCorrect == Spec => []StreamInOrder
<1>1. Init => OInv
    <2> SUFFICES ASSUME Init PROVE OInv
        OBVIOUS
    <2>1. Rows = {} /\ Range(batch) = {} /\ \A e \in Events : \A n : ~Stage(e, n)
        BY EmptyRange, AuditAssumption DEF Init, Rows, Stage
    <2>2. StageOrder /\ Whole /\ StreamInOrder
        BY <2>1 DEF StageOrder, Whole, StreamInOrder
    <2>3. Lines /\ Positions
        BY DEF Init, Lines, Line, Positions
    <2> QED BY <2>2, <2>3 DEF OInv
<1>2. OInv => StreamInOrder
    BY DEF OInv
<1> QED BY <1>1, <1>2, OrderNext, Inductive, PTL DEF Spec

=============================================================================
