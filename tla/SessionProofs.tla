----------------------------- MODULE SessionProofs -----------------------------
(***************************************************************************)
(* The promises of Session, for any durations, buffer, limits and any      *)
(* setback of the clock.  The argument is about the events in flight, from *)
(* the kernel's buffer to the session: their order, their stamps, and what *)
(* the last of them tells of the finger.  What the session takes from the  *)
(* recognizer is proved of Recognizer too.                                 *)
(***************************************************************************)
EXTENDS Session, Recognizer, SequenceTheorems, TLAPS

Kinds == {"Down", "Up", "Move", "Dropped", "Report"}
Item == [kind : Kinds, at : Nat]
Taps == [first : Nat, due : Nat] \cup {NoOwed}
Times == Nat \cup {None}
Stoppers == [observed : Nat, draining : BOOLEAN]
Verdicts == [finished : BOOLEAN, stopper : Stoppers]

\* Events that wait for the session.
Flight == batch \o buffer

TypesInv ==
  /\ limit \in Limits /\ now \in Nat /\ skew \in 0..ClockSteps
  /\ finger \in BOOLEAN /\ stop \in BOOLEAN /\ reload \in BOOLEAN
  /\ batch \in Seq(Item) /\ buffer \in Seq(Item)
  /\ snapshot \in Times
  /\ touch \in [active : BOOLEAN, desynchronized : BOOLEAN]
  /\ engine \in [down : BOOLEAN, owed : Taps]
  /\ alarm \in [input : Times, wall : Times]
  /\ stopper \in Stoppers
  /\ drain \in Times /\ drainedAt \in Times
  /\ outcome \in {"running", "finished", "timed out", "failed"}
  /\ restedAt \in Nat

\* The deadlines of o come from a frame of time t or earlier.
Reach(o, t) ==
  o # NoOwed =>
    /\ o.first <= t + TapTimeout
    /\ o.due <= t + TapTimeout \/ o.due <= t + TapDuration

\* The stamps are in order but for what the clock was set back.
StampInv ==
  /\ Reach(engine.owed, now + Epoch)
  /\ \A i \in 1..Len(Flight) :
       /\ Flight[i].at <= now + Epoch
       /\ Reach(engine.owed, Flight[i].at + skew)
       /\ \A j \in 1..Len(Flight) : i < j => Flight[i].at <= Flight[j].at + skew

\* The alarm al is set for the tap o: not early, and not later than it may be.
Fits(al, o) ==
  /\ al.input = o.due
  /\ al.wall = None <=> al.input = None
  /\ al.wall # None =>
       /\ al.wall + Epoch >= al.input
       /\ \/ al.wall <= now + TapTimeout + skew
          \/ al.wall <= now + TapDuration + skew
AlarmInv == outcome = "running" => Fits(alarm, engine.owed)

\* An event is followed by the report of its packet, or by the loss of it.
Packets ==
  \A i \in 1..Len(Flight) : Flight[i].kind # "Report" =>
    i + 1 \in 1..Len(Flight) /\ Flight[i + 1].kind \in {"Report", "Dropped"}
EndIsNext == 1 \in 1..Len(Flight) /\ Flight[1].kind \in {"Report", "Dropped"}
ShapeInv ==
  /\ Packets
  /\ frames \in {<<>>, <<"Down">>, <<"Up">>, <<"Move">>, Discarded}
  /\ frames # <<>> => EndIsNext
  /\ touch.desynchronized <=> frames = Discarded \/ snapshot # None
  /\ snapshot # None => frames = <<>>
  /\ touch.desynchronized => engine.owed = NoOwed

\* The last event that tells of the finger tells what it does; when none is in
\* flight, the session knows it.
Change == {"Down", "Up", "Dropped"}
IsLast(i) ==
  /\ Flight[i].kind \in Change
  /\ \A j \in 1..Len(Flight) : i < j => Flight[j].kind \notin Change
LastTells ==
  \A i \in 1..Len(Flight) : IsLast(i) =>
    /\ Flight[i].kind = "Down" => finger
    /\ Flight[i].kind = "Up" => ~finger
Quiet == \A i \in 1..Len(Flight) : Flight[i].kind \notin Change
KnownInv ==
  /\ outcome = "running" => engine.down = touch.active
  /\ LastTells
  /\ Quiet =>
       /\ frames = <<"Down">> => finger
       /\ frames = <<"Up">> => ~finger
       /\ frames \in {<<>>, <<"Move">>} /\ snapshot = None /\ outcome = "running" =>
            touch.active = finger

\* A drain's timeout starts when a finger is down, and is dropped with it.
EndInv ==
  /\ restedAt <= now
  /\ drain # None => drain >= restedAt + DrainTimeout
  /\ outcome = "finished" /\ limit # "Immediately" =>
       ~IsTouchDown(touch) /\ engine.owed = NoOwed
  /\ outcome = "timed out" => now >= restedAt + DrainTimeout

SInv == TypesInv /\ StampInv /\ AlarmInv /\ ShapeInv /\ KnownInv /\ EndInv

-----------------------------------------------------------------------------
(* The tap that is owed                                                    *)

LEMMA NoOwedFacts == NoOwed.first = -1 /\ NoOwed.due = -1 /\ NoOwed \in Taps /\ None = -1
BY DEF NoOwed, None, Taps

\* A tap is none, or has two deadlines.
LEMMA TapFacts ==
  ASSUME NEW o \in Taps
  PROVE  /\ o = NoOwed <=> o.due = None
         /\ o = NoOwed <=> o.first = None
         /\ o # NoOwed => o.first \in Nat /\ o.due \in Nat
         /\ o.due \in Times
BY NoOwedFacts DEF Taps, Times

\* What is kept is an earlier tap, or one of this frame.
LEMMA ExpiredFacts ==
  ASSUME NEW o \in Taps, NEW t \in Nat
  PROVE  /\ Expired(o, t) \in Taps
         /\ Expired(o, t) # NoOwed => Expired(o, t) = o /\ t < o.due
<1>1. CASE o = NoOwed
  BY <1>1, NoOwedFacts DEF Expired
<1>2. CASE o # NoOwed
  <2>1. o.due \in Nat /\ o.due # None
    BY <1>2, TapFacts, NoOwedFacts
  <2> QED BY <2>1, NoOwedFacts DEF Expired
<1> QED BY <1>1, <1>2

LEMMA UnpairedFacts ==
  ASSUME NEW o \in Taps
  PROVE  /\ Unpaired(o) \in Taps
         /\ Unpaired(o) # NoOwed =>
              o # NoOwed /\ Unpaired(o).first = o.first /\ Unpaired(o).due = o.first
<1>1. CASE o = NoOwed
  <2>1. Unpaired(o) = NoOwed
    BY <1>1 DEF Unpaired, NoOwed
  <2> QED BY <2>1, NoOwedFacts
<1>2. CASE o # NoOwed
  <2>1. o \in [first : Nat, due : Nat]
    BY <1>2 DEF Taps
  <2> QED BY <1>2, <2>1 DEF Unpaired, Taps
<1> QED BY <1>1, <1>2

\* A frame of time t leaves no tap or one that is not due yet, and no later than
\* its frames allow.
LEMMA FrameTap ==
  ASSUME NEW o \in Taps, NEW t \in Nat, NEW touches, NEW p \in OwedAfter(o, touches, t)
  PROVE  /\ p \in Taps
         /\ p # NoOwed => t < p.due
         /\ \A u \in Nat : t <= u /\ Reach(o, u) => Reach(p, u)
<1> DEFINE kept == {Expired(o, t), Expired(Unpaired(o), t), NoOwed}
                   \cup (IF "Up" \in touches THEN {Owe(t)} ELSE {})
           paired == {Paired(k, t) : k \in {x \in kept : t < x.first}}
           Fine(k) == /\ k \in Taps
                      /\ k # NoOwed => t < k.due
                      /\ \A u \in Nat : t <= u /\ Reach(o, u) => Reach(k, u)
<1>1. Fine(NoOwed)
  BY NoOwedFacts DEF Reach
<1>2. Fine(Expired(o, t))
  BY ExpiredFacts, <1>1
<1>3. Fine(Expired(Unpaired(o), t))
  <2> DEFINE q == Unpaired(o)
  <2>1. CASE Expired(q, t) = NoOwed
    BY <2>1, <1>1
  <2>2. CASE Expired(q, t) # NoOwed
    <3>1. q \in Taps
      BY UnpairedFacts
    <3>2. Expired(q, t) = q /\ t < q.due /\ q # NoOwed
      BY <2>2, <3>1, ExpiredFacts
    <3>3. o # NoOwed /\ q.first = o.first /\ q.due = o.first
      BY <3>2, UnpairedFacts
    <3>4. \A u \in Nat : Reach(o, u) => Reach(q, u)
      BY <3>3 DEF Reach
    <3>5. Fine(q)
      BY <3>1, <3>2, <3>4
    <3> HIDE DEF Fine
    <3> QED BY <3>2, <3>5
  <2> QED BY <2>1, <2>2
<1>4. Fine(Owe(t))
  <2>1. /\ Owe(t) \in Taps
        /\ Owe(t).first = t + TapTimeout /\ Owe(t).due = t + TapTimeout
    BY TapTimesAssumption DEF Owe, Taps
  <2>2. t < Owe(t).due
    BY <2>1, TapTimesAssumption
  <2>3. \A u \in Nat : t <= u => Reach(Owe(t), u)
    BY <2>1, TapTimesAssumption DEF Reach
  <2> QED BY <2>1, <2>2, <2>3
<1>5. \A k \in kept : Fine(k)
  BY <1>1, <1>2, <1>3, <1>4
<1>6. ASSUME NEW k \in kept, t < k.first
      PROVE  Fine(Paired(k, t))
  <2> DEFINE q == Paired(k, t)
  <2>1. Fine(k)
    BY <1>5
  <2>2. k # NoOwed
    <3>1. ~(t < -1)
      OBVIOUS
    <3> QED BY <1>6, <3>1, NoOwedFacts
  <2>3. k \in [first : Nat, due : Nat]
    BY <2>1, <2>2 DEF Taps
  <2>4. q \in Taps /\ q.first = k.first /\ q.due = t + TapDuration
    BY <2>3, TapTimesAssumption DEF Paired, Taps
  <2>5. t < q.due
    BY <2>4, TapTimesAssumption
  <2>6. ASSUME NEW u \in Nat, t <= u, Reach(o, u)
        PROVE  Reach(q, u)
    <3>1. Reach(k, u)
      BY <2>1, <2>6
    <3>2. q.first <= u + TapTimeout /\ q.due <= u + TapDuration
      BY <3>1, <2>2, <2>4, <2>6, TapTimesAssumption DEF Reach
    <3> QED BY <3>2 DEF Reach
  <2> QED BY <2>4, <2>5, <2>6
<1>7. p \in kept \/ \E k \in kept : t < k.first /\ p = Paired(k, t)
  BY DEF OwedAfter
<1> QED BY <1>5, <1>6, <1>7

-----------------------------------------------------------------------------
(* Events in flight                                                        *)

LEMMA FlightFacts ==
  ASSUME TypesInv
  PROVE  /\ Flight \in Seq(Item) /\ Len(Flight) \in Nat
         /\ Len(batch) \in Nat /\ Len(buffer) \in Nat
         /\ Len(Flight) = Len(batch) + Len(buffer)
         /\ \A i \in 1..Len(Flight) : /\ Flight[i] \in Item
                                      /\ Flight[i].kind \in Kinds /\ Flight[i].at \in Nat
         /\ \A i \in 1..Len(Flight) :
              Flight[i] = IF i <= Len(batch) THEN batch[i] ELSE buffer[i - Len(batch)]
<1>1. batch \in Seq(Item) /\ buffer \in Seq(Item)
  BY DEF TypesInv
<1>2. Flight \in Seq(Item) /\ Len(Flight) = Len(batch) + Len(buffer)
  BY <1>1, ConcatProperties DEF Flight
<1>3. Len(Flight) \in Nat /\ Len(batch) \in Nat /\ Len(buffer) \in Nat
  BY <1>1, <1>2, LenProperties
<1>4. \A i \in 1..Len(Flight) : Flight[i] \in Item
  BY <1>2, ElementOfSeq
<1>5. \A i \in 1..Len(Flight) :
        Flight[i] = IF i <= Len(batch) THEN batch[i] ELSE buffer[i - Len(batch)]
  BY <1>1, <1>2, ConcatProperties DEF Flight
<1> QED BY <1>2, <1>3, <1>4, <1>5 DEF Item

\* The session takes the first event.
Takes == batch # <<>> /\ batch' = Tail(batch) /\ UNCHANGED buffer

LEMMA TakesFlight ==
  ASSUME TypesInv, Takes
  PROVE  /\ batch' \in Seq(Item) /\ buffer' \in Seq(Item)
         /\ 1 \in 1..Len(Flight) /\ Flight[1] = Head(batch)
         /\ Len(Flight') = Len(Flight) - 1
         /\ \A i \in 1..Len(Flight') : /\ i + 1 \in 1..Len(Flight)
                                       /\ Flight'[i] = Flight[i + 1]
<1>1. batch \in Seq(Item) /\ batch # <<>> /\ buffer \in Seq(Item)
  BY DEF TypesInv, Takes
<1>2. /\ Tail(batch) \in Seq(Item) /\ Len(Tail(batch)) = Len(batch) - 1
      /\ \A i \in 1..Len(Tail(batch)) : Tail(batch)[i] = batch[i + 1]
  BY <1>1, HeadTailProperties
<1>3. Len(batch) \in Nat \ {0}
  BY <1>1, EmptySeq
<1>4. Flight = batch \o buffer /\ Flight' = Tail(batch) \o buffer
  BY DEF Flight, Takes
<1>5. /\ Len(Flight') = Len(Tail(batch)) + Len(buffer)
      /\ \A i \in 1..Len(Flight') :
           Flight'[i] = IF i <= Len(Tail(batch)) THEN Tail(batch)[i]
                                                 ELSE buffer[i - Len(Tail(batch))]
  BY <1>1, <1>2, <1>4, ConcatProperties
<1>6. Len(Flight') = Len(Flight) - 1
  BY <1>2, <1>3, <1>5, FlightFacts
<1>7. 1 \in 1..Len(Flight) /\ Flight[1] = Head(batch)
  <2>1. 1 \in 1..Len(Flight) /\ 1 <= Len(batch)
    BY <1>3, FlightFacts
  <2>2. Flight[1] = batch[1]
    BY <2>1, FlightFacts
  <2> QED BY <2>1, <2>2, <1>1
<1>8. ASSUME NEW i \in 1..Len(Flight')
      PROVE  i + 1 \in 1..Len(Flight) /\ Flight'[i] = Flight[i + 1]
  <2>1. i + 1 \in 1..Len(Flight)
    BY <1>6, FlightFacts
  <2>2. Flight[i + 1] = IF i + 1 <= Len(batch) THEN batch[i + 1]
                                               ELSE buffer[(i + 1) - Len(batch)]
    BY <2>1, FlightFacts
  <2>3. CASE i <= Len(batch) - 1
    <3>1. i \in 1..Len(Tail(batch)) /\ i + 1 <= Len(batch)
      BY <1>2, <1>3, <2>3
    <3> QED BY <3>1, <2>1, <2>2, <1>2, <1>5
  <2>4. CASE ~(i <= Len(batch) - 1)
    <3>1. ~(i + 1 <= Len(batch)) /\ i - (Len(batch) - 1) = (i + 1) - Len(batch)
      BY <1>3, <2>4
    <3>2. Flight'[i] = buffer[i - (Len(batch) - 1)]
      BY <1>2, <1>5, <2>4
    <3> QED BY <3>1, <3>2, <2>1, <2>2
  <2> QED BY <2>3, <2>4
<1> QED BY <1>1, <1>2, <1>6, <1>7, <1>8 DEF Takes

LEMMA FetchFlight ==
  ASSUME TypesInv, Fetch
  PROVE  /\ batch' \in Seq(Item) /\ buffer' \in Seq(Item)
         /\ Flight' = Flight
<1>1. PICK n \in 1..Len(buffer) : /\ batch' = SubSeq(buffer, 1, n)
                                  /\ buffer' = SubSeq(buffer, n + 1, Len(buffer))
  BY DEF Fetch
<1>2. batch = <<>> /\ buffer \in Seq(Item)
  BY DEF Fetch, AtPoll, TypesInv
<1>3. Len(buffer) \in Nat
  BY <1>2, LenProperties
<1>4. batch' \in Seq(Item) /\ buffer' \in Seq(Item)
  <2>1. \A i \in 1..Len(buffer) : buffer[i] \in Item
    BY <1>2, ElementOfSeq
  <2>2. \A i \in 1..n : buffer[i] \in Item
    BY <1>3, <2>1
  <2>3. \A i \in (n + 1)..Len(buffer) : buffer[i] \in Item
    BY <1>3, <2>1
  <2>4. n \in Int /\ 1 \in Int /\ n + 1 \in Int /\ Len(buffer) \in Int
    BY <1>3
  <2>5. SubSeq(buffer, 1, n) \in Seq(Item)
    BY <2>2, <2>4, SubSeqProperties
  <2>6. SubSeq(buffer, n + 1, Len(buffer)) \in Seq(Item)
    BY <2>3, <2>4, SubSeqProperties
  <2> QED BY <1>1, <2>5, <2>6
<1>5. SubSeq(buffer, 1, n) \o SubSeq(buffer, n + 1, Len(buffer)) = SubSeq(buffer, 1, Len(buffer))
  <2>1. /\ 1 \in 1..Len(buffer) + 1 /\ n \in 1 - 1..Len(buffer)
        /\ Len(buffer) \in n..Len(buffer)
    BY <1>3
  <2> QED BY <2>1, <1>2, ConcatAdjacentSubSeq
<1>6. Flight' = buffer
  BY <1>1, <1>2, <1>5, SubSeqFull DEF Flight
<1>7. Flight = buffer
  BY <1>2, ConcatEmptySeq DEF Flight
<1> QED BY <1>4, <1>6, <1>7

\* Two more events, after n of those in flight.
LEMMA TwoMore ==
  ASSUME NEW S, NEW s \in Seq(S), NEW a \in S, NEW b \in S
  PROVE  /\ s \o <<a, b>> \in Seq(S)
         /\ Len(s \o <<a, b>>) = Len(s) + 2
         /\ \A i \in 1..Len(s) : (s \o <<a, b>>)[i] = s[i]
         /\ (s \o <<a, b>>)[Len(s) + 1] = a
         /\ (s \o <<a, b>>)[Len(s) + 2] = b
<1> DEFINE p == <<a, b>>
<1>1. p \in Seq(S) /\ Len(p) = 2 /\ p[1] = a /\ p[2] = b
  OBVIOUS
<1> HIDE DEF p
<1>2. Len(s) \in Nat
  BY LenProperties
<1>3. /\ s \o p \in Seq(S) /\ Len(s \o p) = Len(s) + Len(p)
      /\ \A i \in 1..Len(s) + Len(p) :
           (s \o p)[i] = IF i <= Len(s) THEN s[i] ELSE p[i - Len(s)]
  BY <1>1, ConcatProperties
<1>4. Len(s \o p) = Len(s) + 2
  BY <1>1, <1>3
<1>5. \A i \in 1..Len(s) : (s \o p)[i] = s[i]
  BY <1>1, <1>2, <1>3
<1>6. (s \o p)[Len(s) + 1] = a
  <2>1. /\ Len(s) + 1 \in 1..Len(s) + Len(p) /\ ~(Len(s) + 1 <= Len(s))
        /\ (Len(s) + 1) - Len(s) = 1
    BY <1>1, <1>2
  <2> QED BY <2>1, <1>1, <1>3
<1>7. (s \o p)[Len(s) + 2] = b
  <2>1. /\ Len(s) + 2 \in 1..Len(s) + Len(p) /\ ~(Len(s) + 2 <= Len(s))
        /\ (Len(s) + 2) - Len(s) = 2
    BY <1>1, <1>2
  <2> QED BY <2>1, <1>1, <1>3
<1> QED BY <1>3, <1>4, <1>5, <1>6, <1>7 DEF p

\* A packet joins what is in flight, or what was in the buffer is lost for it.
Joined(n, kind) ==
  /\ Len(Flight') = n + 2
  /\ \A i \in 1..n : Flight'[i] = Flight[i]
  /\ Flight'[n + 1].at = now + Epoch - skew
  /\ Flight'[n + 2].at = now + Epoch - skew
  /\ Flight'[n + 2].kind = "Report"
  /\ \/ Flight'[n + 1].kind = "Dropped"
     \/ Flight'[n + 1].kind = kind /\ n = Len(Flight)

LEMMA SendFlight ==
  ASSUME TypesInv, NEW kind \in {"Down", "Up", "Move"}, Send(kind)
  PROVE  buffer' \in Seq(Item) /\ \E n \in 0..Len(Flight) : Joined(n, kind)
<1>1. now + Epoch - skew \in Nat
  <2>1. now \in Nat /\ Epoch \in Nat /\ ClockSteps \in 0..Epoch /\ skew \in 0..ClockSteps
    BY TimesAssumption DEF TypesInv
  <2> QED BY <2>1
<1>2. \A k \in Kinds : Stamped(k) \in Item /\ Stamped(k).kind = k
                       /\ Stamped(k).at = now + Epoch - skew
  BY <1>1 DEF Stamped, Item
<1> DEFINE a == Stamped(kind)
           d == Stamped("Dropped")
           r == Stamped("Report")
<1>3. /\ a \in Item /\ a.kind = kind /\ a.at = now + Epoch - skew
      /\ d \in Item /\ d.kind = "Dropped" /\ d.at = now + Epoch - skew
      /\ r \in Item /\ r.kind = "Report" /\ r.at = now + Epoch - skew
  BY <1>2 DEF Kinds
<1>4. batch \in Seq(Item) /\ buffer \in Seq(Item) /\ batch' = batch
  BY DEF TypesInv, Send, loopVars
<1>5. buffer' = <<d, r>> \/ buffer' = buffer \o <<a, r>>
  BY DEF Send
<1> HIDE DEF a, d, r
<1>6. CASE buffer' = <<d, r>>
  <2>1. buffer' \in Seq(Item)
    BY <1>3, <1>6
  <2>2. Flight' = batch \o <<d, r>>
    BY <1>4, <1>6 DEF Flight
  <2>3. /\ Len(Flight') = Len(batch) + 2
        /\ \A i \in 1..Len(batch) : Flight'[i] = batch[i]
        /\ Flight'[Len(batch) + 1] = d /\ Flight'[Len(batch) + 2] = r
    BY <2>2, <1>3, <1>4, TwoMore
  <2>4. Len(batch) \in 0..Len(Flight) /\ \A i \in 1..Len(batch) : Flight[i] = batch[i]
    <3>1. Len(batch) \in 0..Len(Flight)
      BY FlightFacts
    <3>2. \A i \in 1..Len(batch) : i \in 1..Len(Flight) /\ i <= Len(batch)
      BY <3>1, FlightFacts
    <3> QED BY <3>1, <3>2, FlightFacts
  <2>5. Joined(Len(batch), kind)
    BY <2>3, <2>4, <1>3 DEF Joined
  <2> QED BY <2>1, <2>4, <2>5
<1>7. CASE buffer' = buffer \o <<a, r>>
  <2>1. buffer' \in Seq(Item)
    BY <1>3, <1>4, <1>7, TwoMore
  <2>2. Flight' = Flight \o <<a, r>>
    <3>1. <<a, r>> \in Seq(Item)
      BY <1>3
    <3> QED BY <3>1, <1>4, <1>7, ConcatAssociative DEF Flight
  <2>3. Flight \in Seq(Item) /\ Len(Flight) \in 0..Len(Flight)
    BY FlightFacts
  <2>4. /\ Len(Flight') = Len(Flight) + 2
        /\ \A i \in 1..Len(Flight) : Flight'[i] = Flight[i]
        /\ Flight'[Len(Flight) + 1] = a /\ Flight'[Len(Flight) + 2] = r
    BY <2>2, <2>3, <1>3, TwoMore
  <2>5. Joined(Len(Flight), kind)
    BY <2>4, <1>3 DEF Joined
  <2> QED BY <2>1, <2>3, <2>5
<1> QED BY <1>5, <1>6, <1>7

-----------------------------------------------------------------------------
(* Stopping                                                                *)

Touches == [active : BOOLEAN, desynchronized : BOOLEAN]
Engines == [down : BOOLEAN, owed : Taps]

\* A verdict that only a run which does not wait can give while it is busy.
Sound(v, busy) == v \in Verdicts /\ (v.finished => limit = "Immediately" \/ ~busy)

LEMMA RequestedStopIsSound ==
  ASSUME NEW st \in Stoppers, NEW busy \in BOOLEAN
  PROVE  Sound(RequestedStop(st, busy), busy)
BY DEF Sound, RequestedStop, Verdicts, Stoppers

LEMMA BoundaryIsSound ==
  ASSUME TypesInv, NEW busy \in BOOLEAN
  PROVE  Sound(AtBoundary(stopper, busy), busy)
<1> DEFINE st == stopper
           counted == [st EXCEPT !.observed = IF @ > FrameBoundaries THEN @ ELSE @ + 1]
           drained == [finished |-> ~busy, stopper |-> [counted EXCEPT !.draining = busy]]
           goOn == [finished |-> FALSE, stopper |-> counted]
<1>1. st \in Stoppers /\ limit \in {"UntilStopped", "Immediately", "WhenIdle"}
  BY LimitsAssumption DEF TypesInv
<1>2. counted \in Stoppers
  BY <1>1, BoundariesAssumption DEF Stoppers
<1>3. drained \in Verdicts /\ drained.finished = ~busy
  <2> HIDE DEF counted
  <2>1. [counted EXCEPT !.draining = busy] \in Stoppers
    BY <1>2 DEF Stoppers
  <2> QED BY <2>1 DEF Verdicts
<1>4. goOn \in Verdicts /\ ~goOn.finished
  <2> HIDE DEF counted
  <2> QED BY <1>2 DEF Verdicts
<1>5. CASE limit = "UntilStopped"
  <2>1. AtBoundary(st, busy) =
          IF st.draining THEN [drained EXCEPT !.stopper.observed = st.observed]
          ELSE IF stop THEN RequestedStop(st, busy)
          ELSE [finished |-> FALSE, stopper |-> st]
    BY <1>5 DEF AtBoundary
  <2>2. Sound([drained EXCEPT !.stopper.observed = st.observed], busy)
    <3> DEFINE obs == st.observed
    <3>1. obs \in Nat
      BY <1>1 DEF Stoppers
    <3> HIDE DEF obs, drained
    <3>2. [drained EXCEPT !.stopper.observed = obs] \in Verdicts
      BY <1>3, <3>1 DEF Verdicts, Stoppers
    <3>3. [drained EXCEPT !.stopper.observed = obs].finished = ~busy
      BY <1>3 DEF Verdicts
    <3> QED BY <3>2, <3>3 DEF Sound, obs
  <2>3. Sound([finished |-> FALSE, stopper |-> st], busy)
    BY <1>1 DEF Sound, Verdicts
  <2> HIDE DEF st, drained
  <2> QED BY <2>1, <2>2, <2>3, <1>1, RequestedStopIsSound DEF st
<1>6. CASE limit # "UntilStopped" /\ counted.observed < FrameBoundaries
  <2>1. AtBoundary(st, busy) = goOn
    BY <1>6, <1>2, BoundariesAssumption DEF AtBoundary, Stoppers
  <2> HIDE DEF goOn
  <2> QED BY <2>1, <1>4 DEF Sound
<1>7. CASE limit = "Immediately" /\ ~(counted.observed < FrameBoundaries)
  <2>1. counted.observed >= FrameBoundaries
    BY <1>7, <1>2, BoundariesAssumption DEF Stoppers
  <2>2. AtBoundary(st, busy) = [finished |-> TRUE, stopper |-> counted]
    BY <1>7, <2>1 DEF AtBoundary
  <2> HIDE DEF counted
  <2> QED BY <2>2, <1>2, <1>7 DEF Sound, Verdicts
<1>8. CASE limit = "WhenIdle" /\ ~(counted.observed < FrameBoundaries)
  <2>1. counted.observed >= FrameBoundaries
    BY <1>8, <1>2, BoundariesAssumption DEF Stoppers
  <2>2. AtBoundary(st, busy) = drained
    BY <1>8, <2>1 DEF AtBoundary
  <2> HIDE DEF drained
  <2> QED BY <2>2, <1>3 DEF Sound
<1> QED BY <1>1, <1>5, <1>6, <1>7, <1>8

LEMMA PollIsSound ==
  ASSUME TypesInv, NEW busy \in BOOLEAN
  PROVE  Sound(AtIdlePoll(stopper, busy), busy)
<1>1. stopper \in Stoppers
  BY DEF TypesInv
<1>2. \A f \in BOOLEAN : (f => ~busy) => Sound([finished |-> f, stopper |-> stopper], busy)
  BY <1>1 DEF Sound, Verdicts
<1> QED BY <1>1, <1>2, RequestedStopIsSound DEF AtIdlePoll

\* What a conclusion decides, from a sound verdict.
LEMMA Concluded ==
  ASSUME TypesInv, EndInv, outcome = "running",
         NEW tch \in Touches, NEW en \in Engines, NEW al,
         NEW v, Sound(v, IsBusy(tch, en)), NEW reloads \in BOOLEAN,
         Recognized(tch, en, al), Conclude(v, tch, en, reloads),
         now' = now, limit' = limit
  PROVE  /\ stopper' \in Stoppers /\ drain' \in Times /\ drainedAt' \in Times
         /\ outcome' \in {"running", "finished", "timed out"}
         /\ reload' \in BOOLEAN /\ restedAt' \in Nat
         /\ EndInv'
         /\ reload /\ ~reload' => reloads /\ MayReload(tch, en)
<1> DEFINE deadline == DrainDeadline(v.stopper, tch)
           timedOut == deadline # None /\ deadline <= now
<1>1. /\ now \in Nat /\ DrainTimeout \in Nat /\ restedAt \in Nat /\ restedAt <= now
      /\ drain \in Times /\ drainedAt \in Times /\ reload \in BOOLEAN
      /\ drain # None => drain >= restedAt + DrainTimeout
  BY TimesAssumption DEF TypesInv, EndInv
<1>2. /\ deadline \in Times
      /\ deadline # None => IsTouchDown(tch) /\ deadline >= restedAt + DrainTimeout
  <2>1. now + DrainTimeout \in Nat /\ now + DrainTimeout >= restedAt + DrainTimeout
    BY <1>1
  <2>2. \/ deadline = None
        \/ IsTouchDown(tch) /\ deadline = drain /\ drain # None
        \/ IsTouchDown(tch) /\ deadline = now + DrainTimeout
    BY DEF DrainDeadline
  <2> HIDE DEF deadline
  <2> QED BY <1>1, <2>1, <2>2 DEF Times
<1>3. /\ v \in Verdicts /\ v.stopper \in Stoppers /\ v.finished \in BOOLEAN
      /\ v.finished => limit = "Immediately" \/ ~IsBusy(tch, en)
  BY DEF Sound, Verdicts
<1>4. /\ stopper' = v.stopper /\ drain' = deadline
      /\ outcome' = IF timedOut THEN "timed out"
                    ELSE IF v.finished THEN "finished" ELSE "running"
      /\ reload' = (reload /\ ~(reloads /\ ~(v.finished \/ timedOut) /\ MayReload(tch, en)))
      /\ drainedAt' = IF v.stopper.draining /\ drainedAt = None THEN now ELSE drainedAt
  BY DEF Conclude
<1>5. /\ touch' = tch /\ engine' = en
      /\ restedAt' = IF IsTouchDown(tch) THEN restedAt ELSE now
  BY DEF Recognized
<1> HIDE DEF deadline
<1>6. drainedAt' \in Times
  BY <1>1, <1>4 DEF Times
<1>7. reload' \in BOOLEAN /\ (reload /\ ~reload' => reloads /\ MayReload(tch, en))
  BY <1>4, Zenon
<1>8. outcome' \in {"running", "finished", "timed out"}
  BY <1>4, Zenon
<1>9. restedAt' \in Nat /\ restedAt' <= now
  BY <1>1, <1>5
<1>10. drain' # None => drain' >= restedAt' + DrainTimeout
  BY <1>2, <1>4, <1>5
<1>11. outcome' = "finished" /\ limit # "Immediately" =>
         ~IsTouchDown(touch') /\ engine'.owed = NoOwed
  <2>1. SUFFICES ASSUME outcome' = "finished", limit # "Immediately"
                 PROVE  ~IsTouchDown(touch') /\ engine'.owed = NoOwed
    OBVIOUS
  <2>2. v.finished
    BY <2>1, <1>4
  <2>3. ~IsBusy(tch, en)
    BY <2>1, <2>2, <1>3
  <2> QED BY <2>3, <1>5 DEF IsBusy
<1>12. outcome' = "timed out" => now >= restedAt' + DrainTimeout
  <2>1. SUFFICES ASSUME outcome' = "timed out" PROVE now >= restedAt' + DrainTimeout
    OBVIOUS
  <2>2. timedOut
    BY <2>1, <1>3, <1>4
  <2>3. /\ restedAt' = restedAt /\ deadline \in Nat /\ deadline <= now
        /\ deadline >= restedAt + DrainTimeout
    BY <2>2, <1>2, <1>5 DEF Times
  <2> QED BY <2>3, <1>1
<1>13. IsTouchDown(touch)' <=> IsTouchDown(touch')
  BY DEF IsTouchDown
<1>14. EndInv'
  BY <1>9, <1>10, <1>11, <1>12, <1>13 DEF EndInv
<1> QED BY <1>2, <1>3, <1>4, <1>6, <1>7, <1>8, <1>9, <1>14

-----------------------------------------------------------------------------
(* Stamps                                                                  *)

LEMMA ReachMonotone ==
  ASSUME NEW o \in Taps, NEW t \in Nat, NEW u \in Nat, t <= u, Reach(o, t)
  PROVE  Reach(o, u)
BY TapFacts, TapTimesAssumption DEF Reach

LEMMA NoReach == \A t : Reach(NoOwed, t)
BY DEF Reach

LEMMA Clocks ==
  ASSUME TypesInv
  PROVE  /\ now \in Nat /\ skew \in Nat /\ Epoch \in Nat /\ skew <= Epoch
         /\ engine.owed \in Taps
<1>1. now \in Nat /\ skew \in 0..ClockSteps /\ ClockSteps \in 0..Epoch /\ Epoch \in Nat
  BY TimesAssumption DEF TypesInv
<1>2. skew \in Nat /\ skew <= Epoch
  BY <1>1
<1>3. engine.owed \in Taps
  BY DEF TypesInv
<1> QED BY <1>1, <1>2, <1>3

\* Nothing is sent or taken; time may pass, and the clock be set back.
LEMMA StampRests ==
  ASSUME TypesInv, StampInv, Flight' = Flight,
         now' \in Nat, now <= now', skew' \in Nat, skew <= skew',
         engine'.owed \in {engine.owed, NoOwed}
  PROVE  StampInv'
<1>1. now \in Nat /\ skew \in Nat /\ Epoch \in Nat /\ engine.owed \in Taps
  BY Clocks
<1>2. Reach(engine'.owed, now' + Epoch)
  <2>1. Reach(engine.owed, now' + Epoch)
    BY <1>1, ReachMonotone DEF StampInv
  <2> QED BY <2>1, NoReach
<1>3. ASSUME NEW i \in 1..Len(Flight)
      PROVE  /\ Flight[i].at <= now' + Epoch
             /\ Reach(engine'.owed, Flight[i].at + skew')
             /\ \A j \in 1..Len(Flight) : i < j => Flight[i].at <= Flight[j].at + skew'
  <2>1. \A j \in 1..Len(Flight) : Flight[j].at \in Nat
    BY FlightFacts
  <2>2. /\ Flight[i].at <= now + Epoch
        /\ Reach(engine.owed, Flight[i].at + skew)
        /\ \A j \in 1..Len(Flight) : i < j => Flight[i].at <= Flight[j].at + skew
    BY DEF StampInv
  <2>3. Reach(engine.owed, Flight[i].at + skew')
    <3>1. /\ Flight[i].at + skew \in Nat /\ Flight[i].at + skew' \in Nat
          /\ Flight[i].at + skew <= Flight[i].at + skew'
      BY <1>1, <2>1
    <3> QED BY <3>1, <1>1, <2>2, ReachMonotone
  <2>4. Reach(engine'.owed, Flight[i].at + skew')
    BY <2>3, NoReach
  <2> QED BY <1>1, <2>1, <2>2, <2>4
<1> QED BY <1>2, <1>3 DEF StampInv

\* The first event is taken, and leaves a tap no later than its stamp allows.
LEMMA StampTaken ==
  ASSUME TypesInv, StampInv, Takes, now' = now, skew' = skew,
         \A u \in Nat : Head(batch).at <= u /\ Reach(engine.owed, u) => Reach(engine'.owed, u)
  PROVE  StampInv'
<1>1. now \in Nat /\ skew \in Nat /\ Epoch \in Nat /\ engine.owed \in Taps
  BY Clocks
<1>2. /\ 1 \in 1..Len(Flight) /\ Flight[1] = Head(batch)
      /\ \A i \in 1..Len(Flight') : /\ i + 1 \in 1..Len(Flight)
                                    /\ Flight'[i] = Flight[i + 1]
  BY TakesFlight
<1>3. \A i \in 1..Len(Flight) : Flight[i].at \in Nat
  BY FlightFacts
<1>5. Reach(engine'.owed, now + Epoch)
  <2>1. now + Epoch \in Nat /\ Head(batch).at <= now + Epoch /\ Reach(engine.owed, now + Epoch)
    BY <1>1, <1>2 DEF StampInv
  <2> QED BY <2>1
<1>6. ASSUME NEW i \in 1..Len(Flight')
      PROVE  /\ Flight'[i].at <= now + Epoch
             /\ Reach(engine'.owed, Flight'[i].at + skew)
             /\ \A j \in 1..Len(Flight') : i < j => Flight'[i].at <= Flight'[j].at + skew
  <2>1. i + 1 \in 1..Len(Flight) /\ Flight'[i] = Flight[i + 1] /\ 1 < i + 1
    <3>1. i \in Nat /\ i >= 1
      OBVIOUS
    <3> QED BY <3>1, <1>2
  <2>2. /\ Flight[i + 1].at <= now + Epoch
        /\ Reach(engine.owed, Flight[i + 1].at + skew)
        /\ Flight[1].at <= Flight[i + 1].at + skew
    BY <1>2, <2>1 DEF StampInv
  <2>3. Flight[i + 1].at + skew \in Nat
    BY <1>1, <1>3, <2>1
  <2>4. Reach(engine'.owed, Flight[i + 1].at + skew)
    BY <1>2, <2>2, <2>3
  <2>5. ASSUME NEW j \in 1..Len(Flight'), i < j
        PROVE  Flight'[i].at <= Flight'[j].at + skew
    <3>1. j + 1 \in 1..Len(Flight) /\ Flight'[j] = Flight[j + 1] /\ i + 1 < j + 1
      BY <1>2, <2>5
    <3> QED BY <2>1, <3>1 DEF StampInv
  <2> QED BY <2>1, <2>2, <2>4, <2>5
<1> QED BY <1>5, <1>6 DEF StampInv

\* A packet has the stamp of now, which no earlier one exceeds by more than the
\* clock was set back.
LEMMA StampSent ==
  ASSUME TypesInv, StampInv, NEW n \in 0..Len(Flight), NEW kind, Joined(n, kind),
         now' = now, skew' = skew, engine' = engine
  PROVE  StampInv'
<1>1. now \in Nat /\ skew \in Nat /\ Epoch \in Nat /\ skew <= Epoch /\ engine.owed \in Taps
  BY Clocks
<1>2. n \in Nat /\ Len(Flight) \in Nat /\ Len(Flight') = n + 2
  BY FlightFacts DEF Joined
<1> DEFINE at(i) == Flight'[i].at
<1>3. \A i \in 1..n : /\ at(i) \in Nat /\ at(i) <= now + Epoch
                      /\ Reach(engine.owed, at(i) + skew)
                      /\ \A j \in 1..n : i < j => at(i) <= at(j) + skew
  <2>1. \A i \in 1..n : i \in 1..Len(Flight) /\ Flight'[i] = Flight[i]
    BY <1>2 DEF Joined
  <2> QED BY <2>1, FlightFacts DEF StampInv
<1>4. \A i \in {n + 1, n + 2} : at(i) = now + Epoch - skew
  BY DEF Joined
<1>5. \A i \in 1..Len(Flight') : i \in 1..n \/ i \in {n + 1, n + 2}
  BY <1>2
<1>6. Reach(engine.owed, now + Epoch)
  BY DEF StampInv
<1> HIDE DEF at
<1>7. (now + Epoch - skew) + skew = now + Epoch /\ now + Epoch - skew <= now + Epoch
  BY <1>1
<1>8. ASSUME NEW i \in 1..Len(Flight')
      PROVE  at(i) <= now + Epoch /\ Reach(engine.owed, at(i) + skew)
  BY <1>3, <1>4, <1>5, <1>6, <1>7
<1>9. ASSUME NEW i \in 1..Len(Flight'), NEW j \in 1..Len(Flight'), i < j
      PROVE  at(i) <= at(j) + skew
  <2>1. CASE j \in 1..n
    <3>1. i \in 1..n
      BY <2>1, <1>9, <1>2
    <3> QED BY <3>1, <2>1, <1>3, <1>9
  <2>2. CASE j \in {n + 1, n + 2}
    <3>1. at(j) + skew = now + Epoch
      BY <2>2, <1>4, <1>7
    <3> QED BY <3>1, <1>8
  <2> QED BY <2>1, <2>2, <1>5
<1> QED BY <1>6, <1>8, <1>9 DEF StampInv, at

-----------------------------------------------------------------------------
(* Packets, and what they tell of the finger                               *)

LEMMA PacketsTaken ==
  ASSUME TypesInv, Packets, Takes
  PROVE  Packets' /\ (Head(batch).kind # "Report" => EndIsNext')
<1>1. /\ 1 \in 1..Len(Flight) /\ Flight[1] = Head(batch)
      /\ Len(Flight') = Len(Flight) - 1 /\ Len(Flight) \in Nat
      /\ \A i \in 1..Len(Flight') : /\ i + 1 \in 1..Len(Flight)
                                    /\ Flight'[i] = Flight[i + 1]
  BY TakesFlight, FlightFacts
<1>2. ASSUME NEW i \in 1..Len(Flight'), Flight'[i].kind # "Report"
      PROVE  i + 1 \in 1..Len(Flight') /\ Flight'[i + 1].kind \in {"Report", "Dropped"}
  <2>1. /\ (i + 1) + 1 \in 1..Len(Flight)
        /\ Flight[(i + 1) + 1].kind \in {"Report", "Dropped"}
    BY <1>1, <1>2 DEF Packets
  <2>2. i + 1 \in 1..Len(Flight')
    BY <1>1, <2>1
  <2> QED BY <1>1, <2>1, <2>2
<1>3. ASSUME Head(batch).kind # "Report"
      PROVE  1 \in 1..Len(Flight') /\ Flight'[1].kind \in {"Report", "Dropped"}
  <2>1. 1 + 1 \in 1..Len(Flight) /\ Flight[1 + 1].kind \in {"Report", "Dropped"}
    BY <1>1, <1>3 DEF Packets
  <2>2. 1 \in 1..Len(Flight')
    BY <1>1, <2>1
  <2> QED BY <1>1, <2>1, <2>2
<1> QED BY <1>2, <1>3 DEF Packets, EndIsNext

LEMMA PacketsSent ==
  ASSUME TypesInv, Packets, NEW n \in 0..Len(Flight), NEW kind, Joined(n, kind)
  PROVE  Packets' /\ (EndIsNext => EndIsNext')
<1>1. /\ n \in Nat /\ Len(Flight) \in Nat /\ Len(Flight') = n + 2
      /\ \A i \in 1..n : i \in 1..Len(Flight) /\ Flight'[i] = Flight[i]
      /\ Flight'[n + 2].kind = "Report"
      /\ \/ Flight'[n + 1].kind = "Dropped"
         \/ Flight'[n + 1].kind = kind /\ n = Len(Flight)
  BY FlightFacts DEF Joined
<1>2. ASSUME NEW i \in 1..Len(Flight'), Flight'[i].kind # "Report"
      PROVE  i + 1 \in 1..Len(Flight') /\ Flight'[i + 1].kind \in {"Report", "Dropped"}
  <2>1. CASE i \in 1..n
    <3>1. /\ i + 1 \in 1..Len(Flight) /\ Flight[i + 1].kind \in {"Report", "Dropped"}
      BY <1>1, <1>2, <2>1 DEF Packets
    <3>2. CASE i + 1 \in 1..n
      BY <1>1, <3>1, <3>2
    <3>3. CASE i + 1 = n + 1
      BY <1>1, <3>1, <3>3
    <3>4. i + 1 \in 1..n \/ i + 1 = n + 1
      BY <1>1, <2>1
    <3> QED BY <3>2, <3>3, <3>4
  <2>2. CASE i = n + 1
    <3>1. i + 1 = n + 2 /\ i + 1 \in 1..Len(Flight')
      BY <1>1, <2>2
    <3> QED BY <3>1, <1>1
  <2>3. i \in 1..n \/ i = n + 1 \/ i = n + 2
    BY <1>1
  <2>4. i # n + 2
    BY <1>1, <1>2
  <2> QED BY <2>1, <2>2, <2>3, <2>4
<1>3. ASSUME EndIsNext
      PROVE  1 \in 1..Len(Flight') /\ Flight'[1].kind \in {"Report", "Dropped"}
  <2>1. 1 \in 1..Len(Flight) /\ Flight[1].kind \in {"Report", "Dropped"}
    BY <1>3 DEF EndIsNext
  <2>2. CASE n = 0
    <3>1. Flight'[1].kind = "Dropped" /\ 1 \in 1..Len(Flight')
      BY <1>1, <2>1, <2>2
    <3> QED BY <3>1
  <2>3. CASE n # 0
    <3>1. 1 \in 1..n /\ 1 \in 1..Len(Flight')
      BY <1>1, <2>3
    <3> QED BY <3>1, <2>1, <1>1
  <2> QED BY <2>2, <2>3
<1> QED BY <1>2, <1>3 DEF Packets, EndIsNext

LEMMA LastTaken ==
  ASSUME TypesInv, LastTells, Takes, finger' = finger
  PROVE  /\ LastTells'
         /\ Quiet' /\ Head(batch).kind \notin Change => Quiet
         /\ Quiet' /\ Head(batch).kind = "Down" => finger
         /\ Quiet' /\ Head(batch).kind = "Up" => ~finger
<1>1. /\ 1 \in 1..Len(Flight) /\ Flight[1] = Head(batch)
      /\ Len(Flight') = Len(Flight) - 1 /\ Len(Flight) \in Nat
      /\ \A i \in 1..Len(Flight') : /\ i + 1 \in 1..Len(Flight)
                                    /\ Flight'[i] = Flight[i + 1]
  BY TakesFlight, FlightFacts
<1>2. \A j \in 1..Len(Flight) : 1 < j => /\ j - 1 \in 1..Len(Flight')
                                         /\ Flight[j] = Flight'[j - 1]
  <2>1. ASSUME NEW j \in 1..Len(Flight), 1 < j
        PROVE  j - 1 \in 1..Len(Flight') /\ Flight[j] = Flight'[j - 1]
    <3>1. j - 1 \in 1..Len(Flight') /\ (j - 1) + 1 = j
      BY <1>1, <2>1
    <3> QED BY <3>1, <1>1
  <2> QED BY <2>1
<1>3. ASSUME NEW i \in 1..Len(Flight'), IsLast(i)'
      PROVE  /\ Flight'[i].kind = "Down" => finger
             /\ Flight'[i].kind = "Up" => ~finger
  <2>1. /\ Flight'[i].kind \in Change
        /\ \A j \in 1..Len(Flight') : i < j => Flight'[j].kind \notin Change
    BY <1>3 DEF IsLast
  <2>2. i + 1 \in 1..Len(Flight) /\ Flight'[i] = Flight[i + 1]
    BY <1>1
  <2>3. ASSUME NEW j \in 1..Len(Flight), i + 1 < j
        PROVE  Flight[j].kind \notin Change
    <3>1. 1 < j /\ i < j - 1
      BY <2>3
    <3> QED BY <3>1, <1>2, <2>1
  <2>4. IsLast(i + 1)
    BY <2>1, <2>2, <2>3 DEF IsLast
  <2> QED BY <2>2, <2>4 DEF LastTells
<1>4. ASSUME Quiet'
      PROVE  \A j \in 1..Len(Flight) : 1 < j => Flight[j].kind \notin Change
  BY <1>2, <1>4 DEF Quiet
<1>5. ASSUME Quiet', Head(batch).kind \notin Change
      PROVE  Quiet
  <2>1. \A j \in 1..Len(Flight) : j = 1 \/ 1 < j
    OBVIOUS
  <2> QED BY <2>1, <1>1, <1>4, <1>5 DEF Quiet
<1>6. ASSUME Quiet', Head(batch).kind \in Change
      PROVE  IsLast(1)
  BY <1>1, <1>4, <1>6 DEF IsLast
<1>7. Quiet' /\ Head(batch).kind = "Down" => finger
  BY <1>1, <1>6 DEF LastTells, Change
<1>8. Quiet' /\ Head(batch).kind = "Up" => ~finger
  BY <1>1, <1>6 DEF LastTells, Change
<1> QED BY <1>3, <1>5, <1>7, <1>8 DEF LastTells

LEMMA LastSent ==
  ASSUME TypesInv, LastTells, NEW n \in 0..Len(Flight),
         NEW kind \in {"Down", "Up", "Move"}, Joined(n, kind),
         kind = "Down" => finger', kind = "Up" => ~finger', kind = "Move" => finger' = finger
  PROVE  LastTells' /\ (Quiet' => Quiet /\ kind = "Move")
<1>1. /\ n \in Nat /\ Len(Flight) \in Nat /\ Len(Flight') = n + 2
      /\ n + 1 \in 1..Len(Flight') /\ n + 2 \in 1..Len(Flight')
      /\ \A i \in 1..n : i \in 1..Len(Flight) /\ Flight'[i] = Flight[i]
      /\ Flight'[n + 2].kind = "Report"
      /\ \/ Flight'[n + 1].kind = "Dropped"
         \/ Flight'[n + 1].kind = kind /\ n = Len(Flight)
  BY FlightFacts DEF Joined
<1>2. ASSUME NEW i \in 1..Len(Flight'), IsLast(i)'
      PROVE  /\ Flight'[i].kind = "Down" => finger'
             /\ Flight'[i].kind = "Up" => ~finger'
  <2>1. /\ Flight'[i].kind \in Change
        /\ \A j \in 1..Len(Flight') : i < j => Flight'[j].kind \notin Change
    BY <1>2 DEF IsLast
  <2>2. i # n + 2
    BY <1>1, <2>1 DEF Change
  <2>3. CASE i = n + 1
    BY <1>1, <2>3
  <2>4. CASE i \in 1..n
    <3>1. Flight'[n + 1].kind \notin Change
      <4>1. i < n + 1
        BY <2>4, <1>1
      <4> QED BY <4>1, <1>1, <2>1
    <3>2. n = Len(Flight) /\ kind = "Move"
      BY <3>1, <1>1 DEF Change
    <3>3. ASSUME NEW j \in 1..Len(Flight), i < j
          PROVE  Flight[j].kind \notin Change
      <4>1. j \in 1..n /\ j \in 1..Len(Flight')
        BY <3>2, <1>1
      <4> QED BY <4>1, <3>3, <1>1, <2>1
    <3>4. IsLast(i)
      BY <2>1, <2>4, <3>3, <1>1 DEF IsLast
    <3> QED BY <3>2, <3>4, <2>4, <1>1 DEF LastTells
  <2>5. i \in 1..n \/ i = n + 1 \/ i = n + 2
    BY <1>1
  <2> QED BY <2>2, <2>3, <2>4, <2>5
<1>3. ASSUME Quiet'
      PROVE  Quiet /\ kind = "Move"
  <2>1. Flight'[n + 1].kind \notin Change
    BY <1>1, <1>3 DEF Quiet
  <2>2. n = Len(Flight) /\ kind = "Move"
    BY <2>1, <1>1 DEF Change
  <2>3. \A i \in 1..Len(Flight) : i \in 1..n /\ i \in 1..Len(Flight')
    BY <1>1, <2>2
  <2>4. \A i \in 1..Len(Flight) : Flight[i].kind \notin Change
    BY <2>3, <1>1, <1>3 DEF Quiet
  <2> QED BY <2>2, <2>4 DEF Quiet
<1> QED BY <1>2, <1>3 DEF LastTells

-----------------------------------------------------------------------------
(* The alarm                                                               *)

Alarms == [input : Times, wall : Times]

LEMMA NoAlarmFits == NoAlarm \in Alarms /\ Fits(NoAlarm, NoOwed)
BY NoOwedFacts DEF NoAlarm, Alarms, Times, Fits

\* An alarm that is set for a deadline ahead of the stamp t, in time for it.
LEMMA SyncFits ==
  ASSUME TypesInv, NEW al, NEW o \in Taps, NEW t \in Nat, t <= now + Epoch,
         o # NoOwed => t < o.due, Reach(o, t + skew)
  PROVE  Sync(al, o.due, t) \in Alarms /\ Fits(Sync(al, o.due, t), o)
<1>1. CASE o = NoOwed
  <2>1. Sync(al, o.due, t) = NoAlarm
    BY <1>1, NoOwedFacts DEF Sync
  <2> QED BY <1>1, <2>1, NoAlarmFits
<1>2. CASE o # NoOwed
  <2>1. /\ o.due \in Nat /\ t < o.due /\ o.due # None /\ t # None /\ None = -1
        /\ now \in Nat /\ skew \in Nat /\ Epoch \in Nat
    BY <1>2, TapFacts, NoOwedFacts, Clocks
  <2>2. Sync(al, o.due, t) = [input |-> o.due, wall |-> now + (o.due - t)]
    BY <2>1 DEF Sync, Later
  <2> DEFINE w == now + (o.due - t)
  <2>3. w \in Nat /\ w # None /\ w + Epoch >= o.due
    BY <2>1
  <2>4. w <= now + TapTimeout + skew \/ w <= now + TapDuration + skew
    BY <1>2, <2>1, TapTimesAssumption DEF Reach
  <2>5. Sync(al, o.due, t) = [input |-> o.due, wall |-> w]
    BY <2>2
  <2> HIDE DEF w
  <2> QED BY <2>1, <2>3, <2>4, <2>5 DEF Alarms, Times, Fits
<1> QED BY <1>1, <1>2

LEMMA FitsLater ==
  ASSUME TypesInv, Fits(alarm, engine.owed), alarm' = alarm, engine'.owed = engine.owed,
         now' \in Nat, now <= now', skew' \in Nat, skew <= skew'
  PROVE  Fits(alarm, engine.owed)'
<1>1. alarm.wall \in Times /\ now \in Nat /\ skew \in Nat /\ None = -1
  BY Clocks, NoOwedFacts DEF TypesInv
<1> QED BY <1>1, TapTimesAssumption DEF Fits, Times

-----------------------------------------------------------------------------
(* The kernel and the rest of the daemon                                   *)

LEMMA SendKeeps ==
  ASSUME SInv, NEW kind \in {"Down", "Up", "Move"}, Send(kind), finger' \in BOOLEAN,
         kind = "Down" => finger', kind = "Up" => ~finger', kind = "Move" => finger' = finger
  PROVE  SInv'
<1> USE DEF SInv, Send, loopVars, tokenVars
<1>1. PICK n \in 0..Len(Flight) : Joined(n, kind)
  BY SendFlight
<1>2. TypesInv'
  BY SendFlight DEF TypesInv
<1>3. StampInv'
  BY <1>1, StampSent
<1>4. AlarmInv'
  BY DEF AlarmInv, Fits
<1>5. ShapeInv'
  <2>1. Packets' /\ (EndIsNext => EndIsNext')
    BY <1>1, PacketsSent DEF ShapeInv
  <2> QED BY <2>1 DEF ShapeInv, Discarded
<1>6. KnownInv'
  <2>1. LastTells' /\ (Quiet' => Quiet /\ kind = "Move")
    BY <1>1, LastSent DEF KnownInv
  <2> QED BY <2>1 DEF KnownInv
<1>7. EndInv'
  BY DEF EndInv, IsTouchDown
<1> QED BY <1>2, <1>3, <1>4, <1>5, <1>6, <1>7

\* Time passes while the run goes on, the clock of the stamps is set back, or a
\* signal reaches its token.
LEMMA OutsideKeeps ==
  ASSUME SInv, UNCHANGED <<limit, kernelVars, loopVars>>,
         stop' \in BOOLEAN, reload' \in BOOLEAN,
         now' \in Nat, now <= now', now' = now \/ outcome = "running",
         skew' \in 0..ClockSteps, skew <= skew'
  PROVE  SInv'
<1> USE DEF SInv, loopVars, kernelVars
<1>1. Flight' = Flight /\ now \in Nat /\ skew' \in Nat /\ restedAt \in Nat
  <2>1. skew' \in 0..ClockSteps /\ ClockSteps \in Nat
    BY TimesAssumption
  <2>2. skew' \in Nat
    BY <2>1
  <2> QED BY <2>2, Clocks DEF Flight, TypesInv
<1>2. TypesInv'
  BY DEF TypesInv
<1>3. StampInv'
  BY <1>1, StampRests
<1>4. AlarmInv'
  BY <1>1, FitsLater DEF AlarmInv
<1>5. ShapeInv'
  BY <1>1 DEF ShapeInv, Packets, EndIsNext, Discarded
<1>6. KnownInv'
  BY <1>1 DEF KnownInv, LastTells, IsLast, Quiet
<1>7. EndInv'
  <2>1. restedAt <= now'
    <3> DEFINE later == now'
    <3>1. restedAt <= now /\ now <= later
      BY DEF EndInv
    <3>2. restedAt \in Nat /\ now \in Nat /\ later \in Nat
      BY <1>1
    <3> HIDE DEF later
    <3>3. restedAt <= later
      BY ONLY <3>1, <3>2
    <3> QED BY <3>3 DEF later
  <2>2. outcome = "timed out" => now' >= restedAt + DrainTimeout
    <3>1. outcome = "timed out" => now' = now
      OBVIOUS
    <3> QED BY <3>1 DEF EndInv
  <2> QED BY <2>1, <2>2 DEF EndInv, IsTouchDown
<1> QED BY <1>2, <1>3, <1>4, <1>5, <1>6, <1>7

-----------------------------------------------------------------------------
(* The read loop                                                           *)

LEMMA FetchKeeps ==
  ASSUME SInv, Fetch
  PROVE  SInv'
<1> USE DEF SInv, Fetch, tokenVars
<1>1. Flight' = Flight /\ batch' \in Seq(Item) /\ buffer' \in Seq(Item)
  BY FetchFlight
<1>2. TypesInv'
  BY <1>1 DEF TypesInv
<1>3. StampInv'
  BY <1>1 DEF StampInv
<1>4. AlarmInv'
  BY DEF AlarmInv, Fits
<1>5. ShapeInv'
  BY <1>1 DEF ShapeInv, Packets, EndIsNext, Discarded
<1>6. KnownInv'
  BY <1>1 DEF KnownInv, LastTells, IsLast, Quiet
<1>7. EndInv'
  BY DEF EndInv, IsTouchDown
<1> QED BY <1>2, <1>3, <1>4, <1>5, <1>6, <1>7

LEMMA ReadFailsKeeps ==
  ASSUME SInv, ReadFails
  PROVE  SInv'
<1> USE DEF SInv, ReadFails, tokenVars, kernelVars
<1>1. Flight' = Flight
  BY DEF Flight
<1>2. TypesInv'
  BY DEF TypesInv
<1>3. StampInv'
  BY <1>1 DEF StampInv
<1>4. AlarmInv'
  BY DEF AlarmInv
<1>5. ShapeInv'
  BY <1>1 DEF ShapeInv, Packets, EndIsNext, Discarded
<1>6. KnownInv'
  BY <1>1 DEF KnownInv, LastTells, IsLast, Quiet
<1>7. EndInv'
  BY DEF EndInv, IsTouchDown
<1> QED BY <1>2, <1>3, <1>4, <1>5, <1>6, <1>7

\* What is read next is one of the events, at its time.
LEMMA HeadFacts ==
  ASSUME SInv, Takes
  PROVE  /\ Head(batch).kind \in Kinds /\ Head(batch).at \in Nat
         /\ Head(batch).at <= now + Epoch
         /\ Head(batch).at + skew \in Nat
         /\ Reach(engine.owed, Head(batch).at + skew)
         /\ frames # <<>> => Head(batch).kind \in {"Report", "Dropped"}
<1>1. 1 \in 1..Len(Flight) /\ Flight[1] = Head(batch)
  BY TakesFlight DEF SInv
<1>2. Flight[1].kind \in Kinds /\ Flight[1].at \in Nat
  BY <1>1, FlightFacts DEF SInv
<1>3. Flight[1].at <= now + Epoch /\ Reach(engine.owed, Flight[1].at + skew)
  BY <1>1 DEF SInv, StampInv
<1>4. skew \in Nat
  BY Clocks DEF SInv
<1>5. frames # <<>> => Flight[1].kind \in {"Report", "Dropped"}
  BY DEF SInv, ShapeInv, EndIsNext
<1> QED BY <1>1, <1>2, <1>3, <1>4, <1>5

LEMMA CollectKeeps ==
  ASSUME SInv, Collect
  PROVE  SInv'
<1> USE DEF SInv, Collect, Reading, tokenVars, kernelVars
<1>1. Takes
  BY DEF Takes
<1>2. TypesInv'
  BY <1>1, TakesFlight DEF TypesInv
<1>3. StampInv'
  BY <1>1, StampTaken
<1>4. AlarmInv'
  BY DEF AlarmInv, Fits
<1>5. /\ Packets' /\ (Head(batch).kind # "Report" => EndIsNext')
  BY <1>1, PacketsTaken DEF ShapeInv
<1>6. /\ LastTells'
      /\ Quiet' /\ Head(batch).kind \notin Change => Quiet
      /\ Quiet' /\ Head(batch).kind = "Down" => finger
      /\ Quiet' /\ Head(batch).kind = "Up" => ~finger
  BY <1>1, LastTaken DEF KnownInv
<1>7. CASE /\ frames # Discarded /\ Head(batch).kind \in {"Down", "Up", "Move"}
           /\ frames' = Append(frames, Head(batch).kind)
  <2>1. frames = <<>>
    BY <1>1, <1>7, HeadFacts
  <2>2. frames' = <<Head(batch).kind>>
    BY <1>7, <2>1
  <2>3. \/ Head(batch).kind = "Down" /\ frames' = <<"Down">>
        \/ Head(batch).kind = "Up" /\ frames' = <<"Up">>
        \/ Head(batch).kind = "Move" /\ frames' = <<"Move">>
    BY <1>7, <2>2
  <2>4. /\ frames' \in {<<"Down">>, <<"Up">>, <<"Move">>} /\ frames' # Discarded
        /\ frames' = <<"Down">> <=> Head(batch).kind = "Down"
        /\ frames' = <<"Up">> <=> Head(batch).kind = "Up"
        /\ frames' = <<"Move">> <=> Head(batch).kind = "Move"
        /\ frames' # <<>>
    <3>1. /\ <<"Down">> # <<"Up">> /\ <<"Down">> # <<"Move">> /\ <<"Up">> # <<"Move">>
          /\ <<"Down">> # <<"Dropped">> /\ <<"Up">> # <<"Dropped">>
          /\ <<"Move">> # <<"Dropped">>
          /\ <<"Down">> # <<>> /\ <<"Up">> # <<>> /\ <<"Move">> # <<>>
      OBVIOUS
    <3> QED BY <2>3, <3>1 DEF Discarded
  <2>5. ShapeInv'
    BY <1>5, <1>7, <2>1, <2>4 DEF ShapeInv, Discarded
  <2>6. KnownInv'
    <3>1. CASE Head(batch).kind = "Move"
      BY <1>6, <2>1, <2>4, <3>1 DEF KnownInv, Change
    <3>2. CASE Head(batch).kind # "Move"
      BY <1>6, <2>4, <3>2 DEF KnownInv
    <3> QED BY <3>1, <3>2
  <2> QED BY <2>5, <2>6, <1>2, <1>3, <1>4 DEF EndInv, IsTouchDown
<1>8. CASE frames = Discarded /\ Head(batch).kind # "Report" /\ UNCHANGED frames
  <2>1. ShapeInv'
    BY <1>5, <1>8 DEF ShapeInv, Discarded
  <2>2. KnownInv'
    BY <1>6, <1>8 DEF KnownInv, Discarded
  <2> QED BY <2>1, <2>2, <1>2, <1>3, <1>4 DEF EndInv, IsTouchDown
<1> QED BY <1>7, <1>8

LEMMA DroppedKeeps ==
  ASSUME SInv, Dropped
  PROVE  SInv'
<1> USE DEF SInv, Dropped, Reading, tokenVars, kernelVars, Recognized
<1>1. Takes
  BY DEF Takes
<1>2. /\ touch' = LostTouch /\ engine' = [down |-> FALSE, owed |-> NoOwed]
      /\ alarm' = NoAlarm /\ restedAt' = restedAt
  BY DEF Sync, IsTouchDown, LostTouch
<1>3. TypesInv'
  BY <1>1, <1>2, TakesFlight, NoAlarmFits, NoOwedFacts DEF TypesInv, LostTouch, Alarms
<1>4. StampInv'
  <2>1. \A u : Reach(engine'.owed, u)
    BY <1>2, NoReach
  <2> QED BY <1>1, <2>1, StampTaken
<1>5. AlarmInv'
  <2>1. Fits(NoAlarm, NoOwed)'
    BY NoOwedFacts DEF NoAlarm, Fits
  <2> QED BY <1>2, <2>1 DEF AlarmInv, Fits
<1>6. ShapeInv'
  <2>1. Packets' /\ EndIsNext'
    BY <1>1, PacketsTaken DEF ShapeInv
  <2> QED BY <1>2, <2>1 DEF ShapeInv, LostTouch, Discarded
<1>7. KnownInv'
  <2>1. LastTells'
    BY <1>1, LastTaken DEF KnownInv
  <2> QED BY <1>2, <2>1 DEF KnownInv, LostTouch, Discarded
<1>8. EndInv'
  BY <1>2 DEF EndInv
<1> QED BY <1>3, <1>4, <1>5, <1>6, <1>7, <1>8

LEMMA AskSnapshotKeeps ==
  ASSUME SInv, AskSnapshot
  PROVE  SInv'
<1> USE DEF SInv, AskSnapshot, Reading, tokenVars, kernelVars
<1>1. Takes
  BY DEF Takes
<1>2. snapshot' \in Nat /\ snapshot' # None
  BY <1>1, HeadFacts, NoOwedFacts
<1>3. TypesInv'
  BY <1>1, <1>2, TakesFlight DEF TypesInv, Times
<1>4. StampInv'
  BY <1>1, StampTaken
<1>5. AlarmInv'
  BY DEF AlarmInv, Fits
<1>6. ShapeInv'
  <2>1. Packets'
    BY <1>1, PacketsTaken DEF ShapeInv
  <2> QED BY <1>2, <2>1 DEF ShapeInv
<1>7. KnownInv'
  <2>1. LastTells'
    BY <1>1, LastTaken DEF KnownInv
  <2> QED BY <1>2, <2>1 DEF KnownInv
<1>8. EndInv'
  BY DEF EndInv, IsTouchDown
<1> QED BY <1>3, <1>4, <1>5, <1>6, <1>7, <1>8

-----------------------------------------------------------------------------
(* The ends of frames                                                      *)

\* A collected frame tells one thing of the finger, or nothing.
LEMMA FrameFacts ==
  ASSUME frames \in {<<>>, <<"Down">>, <<"Up">>, <<"Move">>}
  PROVE  /\ FrameEvent = "None" <=> frames = <<>>
         /\ FrameEvent = "Down" <=> frames = <<"Down">>
         /\ FrameEvent = "Up" <=> frames = <<"Up">>
         /\ FrameEvent = "Move" <=> frames = <<"Move">>
         /\ FrameEvent \in {"None", "Down", "Up", "Move"}
<1>1. /\ Head(<<"Down">>) = "Down" /\ Head(<<"Up">>) = "Up" /\ Head(<<"Move">>) = "Move"
      /\ <<"Down">> # <<>> /\ <<"Up">> # <<>> /\ <<"Move">> # <<>>
      /\ <<"Down">> # <<"Up">> /\ <<"Down">> # <<"Move">> /\ <<"Up">> # <<"Move">>
  OBVIOUS
<1> QED BY <1>1 DEF FrameEvent

\* Without lost events, a frame that is reported tells of a finger the session
\* knows by then.
LEMMA BoundaryShape ==
  ASSUME SInv, Takes, Head(batch).kind = "Report", frames # Discarded, snapshot = None,
         finger' = finger, frames' = <<>>, snapshot' = snapshot,
         touch' = [touch EXCEPT !.active = DownAfter(@)]
  PROVE  /\ touch' \in Touches /\ ~touch'.desynchronized
         /\ ShapeInv' /\ LastTells'
         /\ frames \in {<<>>, <<"Down">>, <<"Up">>, <<"Move">>}
         /\ touch'.active = DownAfter(touch.active)
         /\ Quiet' /\ outcome = "running" => touch'.active = finger
<1> USE DEF SInv
<1>1. frames \in {<<>>, <<"Down">>, <<"Up">>, <<"Move">>} /\ ~touch.desynchronized
  BY DEF ShapeInv
<1>2. touch' \in Touches /\ touch'.active = DownAfter(touch.active) /\ ~touch'.desynchronized
  <2> DEFINE after == DownAfter(touch.active)
  <2>1. after \in BOOLEAN
    BY DEF DownAfter, TypesInv
  <2>2. touch' = [touch EXCEPT !.active = after]
    OBVIOUS
  <2> HIDE DEF after
  <2>3. touch \in Touches
    BY DEF TypesInv, Touches
  <2>4. touch' \in Touches /\ touch'.active = after /\ touch'.desynchronized = touch.desynchronized
    BY <2>1, <2>2, <2>3 DEF Touches
  <2> QED BY <2>4, <1>1 DEF after
<1>3. Packets'
  BY PacketsTaken DEF ShapeInv
<1>4. ShapeInv'
  BY <1>2, <1>3 DEF ShapeInv, Discarded
<1>5. /\ LastTells'
      /\ Quiet' => Quiet
  BY LastTaken DEF KnownInv, Change
<1>6. ASSUME Quiet', outcome = "running"
      PROVE  touch'.active = finger
  <2>1. /\ frames = <<"Down">> => finger
        /\ frames = <<"Up">> => ~finger
        /\ frames \in {<<>>, <<"Move">>} => touch.active = finger
    BY <1>5, <1>6 DEF KnownInv
  <2>2. touch.active \in BOOLEAN /\ finger \in BOOLEAN
    BY DEF TypesInv
  <2>3. CASE frames = <<"Down">>
    BY <1>1, <1>2, <2>1, <2>2, <2>3, FrameFacts DEF DownAfter
  <2>4. CASE frames = <<"Up">>
    BY <1>1, <1>2, <2>1, <2>2, <2>4, FrameFacts DEF DownAfter
  <2>5. CASE frames \in {<<>>, <<"Move">>}
    <3>1. FrameEvent # "Down" /\ FrameEvent # "Up"
      BY <1>1, <2>5, FrameFacts
    <3> QED BY <3>1, <1>2, <2>1, <2>2, <2>5 DEF DownAfter
  <2> QED BY <1>1, <2>3, <2>4, <2>5
<1> QED BY <1>1, <1>2, <1>4, <1>5, <1>6

LEMMA BoundaryKeeps ==
  ASSUME SInv, Boundary
  PROVE  SInv'
<1> USE DEF SInv
<1> DEFINE t == Head(batch).at
           tch == [touch EXCEPT !.active = DownAfter(@)]
<1>1. /\ Reading /\ Head(batch).kind = "Report" /\ frames # Discarded
      /\ batch' = Tail(batch) /\ frames' = <<>>
      /\ UNCHANGED <<limit, skew, now, finger, buffer, stop, snapshot>>
  BY DEF Boundary, kernelVars
<1>2. Takes /\ snapshot = None /\ outcome = "running"
  BY <1>1 DEF Takes, Reading
<1>3. batch' \in Seq(Item) /\ buffer' \in Seq(Item)
  BY <1>2, TakesFlight
<1>4. /\ t \in Nat /\ t <= now + Epoch /\ t + skew \in Nat /\ Reach(engine.owed, t + skew)
      /\ t <= t + skew
  BY <1>2, HeadFacts, Clocks
<1>5. CASE /\ outcome' = "failed" /\ touch' = tch
           /\ UNCHANGED <<engine, alarm, restedAt, stopper, drain, reload, drainedAt>>
  <2>1. touch' \in Touches /\ ShapeInv' /\ LastTells'
    BY <1>1, <1>2, <1>5, BoundaryShape
  <2>2. TypesInv'
    BY <1>1, <1>3, <1>5, <2>1 DEF TypesInv, Touches
  <2>3. StampInv'
    BY <1>1, <1>2, <1>5, StampTaken
  <2>4. AlarmInv'
    BY <1>5 DEF AlarmInv
  <2>5. KnownInv'
    BY <1>1, <1>5, <2>1 DEF KnownInv
  <2>6. EndInv'
    BY <1>1, <1>5 DEF EndInv
  <2> QED BY <2>1, <2>2, <2>3, <2>4, <2>5, <2>6
<1>6. ASSUME NEW o \in AfterFrame(t),
             LET en == [down |-> DownAfter(engine.down), owed |-> o]
                 al == IF FrameEvent = "None" THEN alarm ELSE Sync(alarm, o.due, t)
             IN /\ Recognized(tch, en, al)
                /\ Conclude(AtBoundary(stopper, IsBusy(tch, en)), tch, en, TRUE)
      PROVE  SInv'
  <2> DEFINE en == [down |-> DownAfter(engine.down), owed |-> o]
             al == IF FrameEvent = "None" THEN alarm ELSE Sync(alarm, o.due, t)
             v == AtBoundary(stopper, IsBusy(tch, en))
  <2>1. touch' = tch /\ engine' = en /\ alarm' = al
    BY <1>6 DEF Recognized
  <2>2. /\ touch' \in Touches /\ ~touch'.desynchronized /\ ShapeInv' /\ LastTells'
        /\ frames \in {<<>>, <<"Down">>, <<"Up">>, <<"Move">>}
        /\ touch'.active = DownAfter(touch.active)
        /\ Quiet' => touch'.active = finger
    BY <1>1, <1>2, <2>1, BoundaryShape
  <2>3. /\ o \in Taps
        /\ \A u \in Nat : t <= u /\ Reach(engine.owed, u) => Reach(o, u)
        /\ al \in Alarms /\ Fits(al, o)
    <3>1. engine.owed \in Taps /\ alarm \in Alarms /\ Fits(alarm, engine.owed)
      BY <1>2, Clocks DEF TypesInv, AlarmInv, Alarms
    <3>2. CASE FrameEvent = "None"
      <4>1. o = engine.owed /\ al = alarm
        BY <3>2 DEF AfterFrame
      <4> QED BY <3>1, <4>1
    <3>3. CASE FrameEvent # "None"
      <4>1. o \in OwedAfter(engine.owed, {FrameEvent}, t) /\ al = Sync(alarm, o.due, t)
        BY <3>3 DEF AfterFrame
      <4>2. /\ o \in Taps /\ (o # NoOwed => t < o.due)
            /\ \A u \in Nat : t <= u /\ Reach(engine.owed, u) => Reach(o, u)
        BY <3>1, <4>1, <1>4, FrameTap
      <4>3. Reach(o, t + skew)
        BY <4>2, <1>4
      <4>4. Sync(alarm, o.due, t) \in Alarms /\ Fits(Sync(alarm, o.due, t), o)
        BY <4>2, <4>3, <1>4, SyncFits
      <4> QED BY <4>1, <4>2, <4>4
    <3> QED BY <3>2, <3>3
  <2>4. en \in Engines /\ tch \in Touches /\ IsBusy(tch, en) \in BOOLEAN
    <3>1. DownAfter(engine.down) \in BOOLEAN
      BY DEF DownAfter, TypesInv
    <3> QED BY <2>1, <2>2, <2>3, <3>1 DEF Engines, IsBusy, IsTouchDown
  <2>5. Sound(v, IsBusy(tch, en))
    BY <2>4, BoundaryIsSound
  <2> HIDE DEF tch, en, al, v, t
  <2>6. Recognized(tch, en, al) /\ Conclude(v, tch, en, TRUE)
    BY <1>6 DEF tch, en, al, v, t
  <2>7. /\ stopper' \in Stoppers /\ drain' \in Times /\ drainedAt' \in Times
        /\ outcome' \in {"running", "finished", "timed out"}
        /\ reload' \in BOOLEAN /\ restedAt' \in Nat
        /\ EndInv'
    BY <1>1, <1>2, <2>4, <2>5, <2>6, Concluded
  <2>8. TypesInv'
    BY <1>1, <1>3, <2>1, <2>3, <2>4, <2>7 DEF TypesInv, Touches, Engines, Alarms
  <2>9. engine'.owed = o
    BY <2>1 DEF en
  <2>10. StampInv'
    BY <1>1, <1>2, <2>3, <2>9, StampTaken DEF t
  <2>11. AlarmInv'
    BY <1>1, <2>1, <2>3, <2>9 DEF AlarmInv, Fits
  <2>12. KnownInv'
    <3>1. engine'.down = DownAfter(engine.down)
      BY <2>1 DEF en
    <3>2. engine.down = touch.active
      BY <1>2 DEF KnownInv
    <3> QED BY <1>1, <2>2, <3>1, <3>2 DEF KnownInv
  <2> QED BY <2>2, <2>7, <2>8, <2>10, <2>11, <2>12
<1> QED BY <1>5, <1>6 DEF Boundary

\* A session that waits lets the tap that is due go, with its alarm.
LEMMA IdlePollKeeps ==
  ASSUME SInv, IdlePoll
  PROVE  SInv'
<1> USE DEF SInv
<1> DEFINE en == [engine EXCEPT !.owed = IF AlarmIsDue THEN Expired(@, alarm.input) ELSE @]
           al == IF AlarmIsDue THEN Sync(NoAlarm, en.owed.due, alarm.input) ELSE alarm
           v == AtIdlePoll(stopper, IsBusy(touch, en))
<1>1. /\ outcome = "running"
      /\ Recognized(touch, en, al) /\ Conclude(v, touch, en, FramesAreIdle)
      /\ UNCHANGED <<limit, skew, now, finger, buffer, stop, batch, snapshot, frames>>
  BY DEF IdlePoll, AtPoll, kernelVars
<1>2. /\ engine \in Engines /\ engine.owed \in Taps /\ alarm \in Alarms
      /\ Fits(alarm, engine.owed)
  BY <1>1, Clocks DEF TypesInv, AlarmInv, Alarms, Engines
<1>3. /\ en \in Engines /\ en.down = engine.down
      /\ \/ en.owed = engine.owed /\ al = alarm
         \/ en.owed = NoOwed /\ al = NoAlarm
  <2>1. CASE ~AlarmIsDue
    <3>1. en = engine /\ al = alarm
      BY <2>1, <1>2 DEF Engines
    <3> QED BY <3>1, <1>2
  <2>2. CASE AlarmIsDue
    <3>1. alarm.input = engine.owed.due /\ alarm.input # None
      BY <2>2, <1>2 DEF AlarmIsDue, Fits
    <3>2. Expired(engine.owed, alarm.input) = NoOwed
      <4>1. alarm.input \in Nat
        BY <3>1, <1>2 DEF Alarms, Times
      <4> QED BY <3>1, <4>1 DEF Expired
    <3>3. en = [engine EXCEPT !.owed = NoOwed]
      BY <2>2, <3>2
    <3>4. en \in Engines /\ en.down = engine.down /\ en.owed = NoOwed
      BY <3>3, <1>2, NoOwedFacts DEF Engines
    <3>5. al = NoAlarm
      BY <2>2, <3>4, NoOwedFacts DEF Sync
    <3> QED BY <3>4, <3>5
  <2> QED BY <2>1, <2>2
<1>4. touch \in Touches /\ IsBusy(touch, en) \in BOOLEAN /\ FramesAreIdle \in BOOLEAN
  BY DEF TypesInv, Touches, IsBusy, IsTouchDown, FramesAreIdle
<1>5. Sound(v, IsBusy(touch, en))
  BY <1>4, PollIsSound
<1> HIDE DEF en, al, v
<1>6. touch' = touch /\ engine' = en /\ alarm' = al
  BY <1>1 DEF Recognized
<1>7. /\ stopper' \in Stoppers /\ drain' \in Times /\ drainedAt' \in Times
      /\ outcome' \in {"running", "finished", "timed out"}
      /\ reload' \in BOOLEAN /\ restedAt' \in Nat
      /\ EndInv'
  BY <1>1, <1>3, <1>4, <1>5, Concluded
<1>8. al \in Alarms /\ Fits(al, en.owed)
  BY <1>2, <1>3, NoAlarmFits
<1>9. Flight' = Flight
  BY <1>1 DEF Flight
<1>10. TypesInv'
  BY <1>1, <1>3, <1>4, <1>6, <1>7, <1>8 DEF TypesInv, Touches, Engines, Alarms
<1>11. StampInv'
  <2>1. now \in Nat /\ skew \in Nat
    BY Clocks
  <2> QED BY <2>1, <1>1, <1>3, <1>6, <1>9, StampRests
<1>12. AlarmInv'
  BY <1>1, <1>6, <1>8 DEF AlarmInv, Fits
<1>13. ShapeInv'
  BY <1>1, <1>3, <1>6, <1>9 DEF ShapeInv, Packets, EndIsNext, Discarded
<1>14. KnownInv'
  BY <1>1, <1>3, <1>6, <1>9 DEF KnownInv, LastTells, IsLast, Quiet
<1> QED BY <1>7, <1>10, <1>11, <1>12, <1>13, <1>14

\* A snapshot tells what the finger does now, whatever is still in flight.
LEMMA RestoreKeeps ==
  ASSUME SInv, Restore
  PROVE  SInv'
<1> USE DEF SInv
<1> DEFINE tch == RestoredTouch
           en == [engine EXCEPT !.down = finger]
           al == Sync(alarm, en.owed.due, snapshot)
           v == AtBoundary(stopper, IsBusy(tch, en))
<1>1. /\ outcome = "running" /\ snapshot # None /\ snapshot' = None
      /\ Recognized(tch, en, al) /\ Conclude(v, tch, en, TRUE)
      /\ UNCHANGED <<limit, skew, now, finger, buffer, stop, batch, frames>>
  BY DEF Restore, kernelVars
<1>2. /\ engine \in Engines /\ finger \in BOOLEAN /\ engine.owed = NoOwed
      /\ frames = <<>>
  BY <1>1 DEF TypesInv, Engines, ShapeInv
<1>3. en \in Engines /\ en.down = finger /\ en.owed = NoOwed
  BY <1>2 DEF Engines
<1>4. al = NoAlarm
  BY <1>3, NoOwedFacts DEF Sync
<1>5. /\ tch \in Touches /\ tch.active = finger /\ ~tch.desynchronized
      /\ IsBusy(tch, en) \in BOOLEAN
  BY <1>2 DEF RestoredTouch, Touches, IsBusy, IsTouchDown
<1>6. Sound(v, IsBusy(tch, en))
  BY <1>5, BoundaryIsSound
<1> HIDE DEF tch, en, al, v
<1>7. touch' = tch /\ engine' = en /\ alarm' = al
  BY <1>1 DEF Recognized
<1>8. /\ stopper' \in Stoppers /\ drain' \in Times /\ drainedAt' \in Times
      /\ outcome' \in {"running", "finished", "timed out"}
      /\ reload' \in BOOLEAN /\ restedAt' \in Nat
      /\ EndInv'
  BY <1>1, <1>3, <1>5, <1>6, Concluded
<1>9. Flight' = Flight
  BY <1>1 DEF Flight
<1>10. TypesInv'
  BY <1>1, <1>3, <1>4, <1>5, <1>7, <1>8, NoAlarmFits
     DEF TypesInv, Touches, Engines, Alarms, Times
<1>11. StampInv'
  <2>1. now \in Nat /\ skew \in Nat
    BY Clocks
  <2> QED BY <2>1, <1>1, <1>3, <1>7, <1>9, StampRests
<1>12. AlarmInv'
  BY <1>1, <1>3, <1>4, <1>7, NoAlarmFits DEF AlarmInv, Fits
<1>13. ShapeInv'
  BY <1>1, <1>2, <1>5, <1>7, <1>9 DEF ShapeInv, Packets, Discarded
<1>14. KnownInv'
  BY <1>1, <1>2, <1>3, <1>5, <1>7, <1>9 DEF KnownInv, LastTells, IsLast, Quiet
<1> QED BY <1>8, <1>10, <1>11, <1>12, <1>13, <1>14

-----------------------------------------------------------------------------
(* The theorems                                                            *)

LEMMA SInitInv == SInit => SInv
<1> SUFFICES ASSUME SInit PROVE SInv
  OBVIOUS
<1> USE DEF SInit
<1>1. Flight = <<>> /\ Len(Flight) = 0
  <2>1. <<>> \o <<>> = <<>> /\ Len(<<>>) = 0
    OBVIOUS
  <2> QED BY <2>1 DEF Flight
<1>2. \A i \in 1..Len(Flight) : FALSE
  BY <1>1
<1>3. engine.owed = NoOwed /\ engine.down = FALSE
  OBVIOUS
<1>4. TypesInv
  <2>1. engine \in [down : BOOLEAN, owed : Taps]
    BY NoOwedFacts
  <2>2. skew \in 0..ClockSteps
    BY TimesAssumption
  <2>3. <<>> \in Seq(Item) /\ 0 \in Nat
    OBVIOUS
  <2> QED BY <2>1, <2>2, <2>3 DEF TypesInv, NoTouch, NoAlarm, Times, Stoppers
<1>5. StampInv
  BY <1>2, <1>3, NoReach DEF StampInv
<1>6. AlarmInv
  BY <1>3, NoAlarmFits DEF AlarmInv
<1>7. ShapeInv
  BY <1>2, <1>3 DEF ShapeInv, Packets, NoTouch, Discarded
<1>8. KnownInv
  BY <1>2, <1>3 DEF KnownInv, LastTells, NoTouch
<1>9. EndInv
  BY DEF EndInv
<1> QED BY <1>4, <1>5, <1>6, <1>7, <1>8, <1>9 DEF SInv

LEMMA SNextInv == SInv /\ [SNext]_svars => SInv'
<1> SUFFICES ASSUME SInv, [SNext]_svars PROVE SInv'
  OBVIOUS
<1>1. /\ now \in Nat /\ skew \in 0..ClockSteps /\ ClockSteps \in Nat
      /\ stop \in BOOLEAN /\ reload \in BOOLEAN
  <2>1. Epoch \in Nat /\ ClockSteps \in 0..Epoch
    BY TimesAssumption
  <2>2. ClockSteps \in Nat
    BY ONLY <2>1
  <2>3. now \in Nat /\ skew \in 0..ClockSteps
    BY Zenon DEF SInv, TypesInv
  <2>4. stop \in BOOLEAN /\ reload \in BOOLEAN
    BY Zenon DEF SInv, TypesInv, Stoppers
  <2> QED BY <2>2, <2>3, <2>4
<1>2. CASE Touch
  BY <1>2, SendKeeps DEF Touch
<1>3. CASE Lift
  BY <1>3, SendKeeps DEF Lift
<1>4. CASE Move
  BY <1>4, SendKeeps DEF Move, SInv, TypesInv
<1>5. CASE SetClockBack
  <2>1. PICK back \in 1..(ClockSteps - skew) : skew' = skew + back
    BY <1>5 DEF SetClockBack
  <2>2. skew' \in 0..ClockSteps /\ skew <= skew'
    BY <1>1, <2>1
  <2> QED BY <1>1, <1>5, <2>2, OutsideKeeps DEF SetClockBack, tokenVars
<1>6. CASE RequestStop
  <2>1. stop' \in BOOLEAN /\ now <= now /\ skew <= skew
    BY <1>1, <1>6 DEF RequestStop
  <2> QED BY <1>1, <1>6, <2>1, OutsideKeeps DEF RequestStop
<1>7. CASE RequestReload
  <2>1. reload' \in BOOLEAN /\ now <= now /\ skew <= skew
    BY <1>1, <1>7 DEF RequestReload
  <2> QED BY <1>1, <1>7, <2>1, OutsideKeeps DEF RequestReload
<1>8. CASE Tick
  <2>1. now' \in Nat /\ now <= now' /\ skew <= skew
    BY <1>1, <1>8 DEF Tick
  <2> QED BY <1>1, <1>8, <2>1, OutsideKeeps DEF Tick, tokenVars
<1>9. CASE Fetch
  BY <1>9, FetchKeeps
<1>10. CASE IdlePoll
  BY <1>10, IdlePollKeeps
<1>11. CASE Collect
  BY <1>11, CollectKeeps
<1>12. CASE Boundary
  BY <1>12, BoundaryKeeps
<1>13. CASE Dropped
  BY <1>13, DroppedKeeps
<1>14. CASE AskSnapshot
  BY <1>14, AskSnapshotKeeps
<1>15. CASE Restore
  BY <1>15, RestoreKeeps
<1>16. CASE ReadFails
  BY <1>16, ReadFailsKeeps
<1>17. CASE UNCHANGED svars
  <2>1. now <= now /\ skew <= skew
    BY <1>1
  <2> QED BY <1>1, <1>17, <2>1, OutsideKeeps DEF svars, tokenVars
<1> QED BY <1>2, <1>3, <1>4, <1>5, <1>6, <1>7, <1>8, <1>9, <1>10, <1>11, <1>12, <1>13,
           <1>14, <1>15, <1>16, <1>17 DEF SNext, LoopStep

\* The inductive invariant of the session.
THEOREM SessionInvariant == SSpec => []SInv
BY SInitInv, SNextInv, PTL DEF SSpec

\* Every reachable state is well typed, and what is touched is in doubt from lost
\* events to the snapshot only.
THEOREM SessionTypes == SSpec => []STypeOK
<1>1. SInv => STypeOK
  <2> SUFFICES ASSUME SInv PROVE STypeOK
    OBVIOUS
  <2> USE DEF SInv
  <2>1. frames \in {<<>>, <<"Down">>, <<"Up">>, <<"Move">>, <<"Dropped">>}
    BY DEF ShapeInv, Discarded
  <2>2. touch.desynchronized <=> frames = <<"Dropped">> \/ snapshot # None
    BY DEF ShapeInv, Discarded
  <2> QED BY <2>1, <2>2 DEF STypeOK, TypesInv, Taps, Times, Stoppers
<1> QED BY <1>1, SessionInvariant, PTL

\* The alarm is set for the deadline of the tap that is owed, and for nothing
\* else.
THEOREM AlarmIsRight == SSpec => []AlarmMatches
<1>1. SInv => AlarmMatches
  BY DEF SInv, AlarmInv, Fits, AlarmMatches
<1> QED BY <1>1, SessionInvariant, PTL

\* However the clock of the stamps is set back and whatever was in flight then,
\* the alarm is never early, and late by no more than the setback.
THEOREM AlarmIsInTime == SSpec => []AlarmIsTimely
<1>1. SInv => AlarmIsTimely
  <2> SUFFICES ASSUME SInv, outcome = "running", alarm.wall # None
               PROVE  /\ alarm.wall + Epoch >= alarm.input
                      /\ \/ alarm.wall - now <= TapTimeout + skew
                         \/ alarm.wall - now <= TapDuration + skew
    BY DEF AlarmIsTimely
  <2>1. /\ alarm.wall + Epoch >= alarm.input
        /\ \/ alarm.wall <= now + TapTimeout + skew
           \/ alarm.wall <= now + TapDuration + skew
    BY DEF SInv, AlarmInv, Fits
  <2>2. alarm.wall \in Nat /\ now \in Nat /\ skew \in Nat
    BY Clocks DEF SInv, TypesInv, Times
  <2> QED BY <2>1, <2>2, TapTimesAssumption
<1> QED BY <1>1, SessionInvariant, PTL

\* After the last event the kernel sent, the session, the recognizer and the
\* kernel agree on the finger, however many events were lost before.
THEOREM FingerIsKnown == SSpec => []TouchIsKnown
<1>1. SInv => TouchIsKnown
  <2> SUFFICES ASSUME SInv, AtPoll, buffer = <<>>
               PROVE  /\ touch = [active |-> finger, desynchronized |-> FALSE]
                      /\ engine.down = finger
    BY DEF TouchIsKnown
  <2> USE DEF SInv
  <2>1. Len(Flight) = 0
    <3>1. Len(<<>> \o <<>>) = 0
      OBVIOUS
    <3> QED BY <3>1 DEF AtPoll, Flight
  <2>2. frames = <<>> /\ snapshot = None /\ ~touch.desynchronized
    <3>1. frames = <<>>
      BY <2>1 DEF ShapeInv, EndIsNext
    <3> QED BY <3>1 DEF ShapeInv, AtPoll, Discarded
  <2>3. touch.active = finger /\ engine.down = touch.active
    BY <2>1, <2>2 DEF KnownInv, Quiet, AtPoll
  <2>4. touch \in Touches
    BY DEF TypesInv, Touches
  <2> QED BY <2>2, <2>3, <2>4 DEF Touches
<1> QED BY <1>1, SessionInvariant, PTL

\* A run that waits for rest ends at rest, or its drain gave up on a finger that
\* was down for all of the timeout.
THEOREM RunsEndProperly == SSpec => []EndsProperly
<1>1. SInv => EndsProperly
  <2> SUFFICES ASSUME SInv PROVE EndsProperly
    OBVIOUS
  <2>1. now \in Nat /\ restedAt \in Nat
    BY Zenon DEF SInv, TypesInv
  <2>2. DrainTimeout \in Nat
    BY TimesAssumption
  <2>3. /\ outcome = "finished" /\ limit # "Immediately" =>
             ~IsTouchDown(touch) /\ engine.owed = NoOwed
        /\ outcome = "timed out" => now >= restedAt + DrainTimeout
    BY Zenon DEF SInv, EndInv
  <2>4. now >= restedAt + DrainTimeout => now - restedAt >= DrainTimeout
    BY ONLY <2>1, <2>2
  <2> QED BY <2>3, <2>4 DEF EndsProperly
<1> QED BY <1>1, SessionInvariant, PTL

\* A configuration is never taken in the middle of anything.
THEOREM ReloadsAreSafe == SSpec => ReloadsAtRest
<1>1. ASSUME SInv, SNext, reload, ~reload'
      PROVE  /\ ~IsTouchDown(touch') /\ engine'.owed = NoOwed
             /\ frames' = <<>> /\ snapshot' = None
  <2> USE DEF SInv
  <2>1. Boundary \/ IdlePoll \/ Restore
    BY <1>1 DEF SNext, Touch, Lift, Move, Send, SetClockBack, RequestStop, RequestReload,
                LoopStep, Fetch, Collect, Dropped, AskSnapshot, ReadFails, Tick, tokenVars,
                loopVars
  <2>2. PICK v, tch, en, al, reloads :
          /\ Recognized(tch, en, al) /\ Conclude(v, tch, en, reloads)
          /\ reloads => frames' = <<>>
    <3>1. CASE Boundary
      BY <1>1, <3>1 DEF Boundary
    <3>2. CASE IdlePoll
      BY <3>2 DEF IdlePoll, FramesAreIdle
    <3>3. CASE Restore
      BY <1>1, <3>3 DEF Restore, ShapeInv
    <3> QED BY <2>1, <3>1, <3>2, <3>3
  <2>3. reloads /\ MayReload(tch, en)
    BY <1>1, <2>2, Zenon DEF Conclude
  <2>4. ~IsTouchDown(touch') /\ engine'.owed = NoOwed /\ frames' = <<>>
    BY <2>2, <2>3 DEF MayReload, Recognized
  <2>5. SInv'
    BY <1>1, SNextInv
  <2>6. snapshot' = None
    BY <2>4, <2>5 DEF ShapeInv, IsTouchDown
  <2> QED BY <2>4, <2>6
<1>2. SInv /\ [SNext]_svars =>
        [reload /\ ~reload' => /\ ~IsTouchDown(touch') /\ engine'.owed = NoOwed
                               /\ frames' = <<>> /\ snapshot' = None]_svars
  BY <1>1
<1> QED BY <1>2, SessionInvariant, PTL DEF SSpec, ReloadsAtRest

-----------------------------------------------------------------------------
(* The recognizer, as the session knows it                                 *)

\* The tap that is owed comes from the last frame or an earlier one, and is
\* not due yet.
RecInv ==
  /\ time \in Nat /\ owed \in Taps /\ Reach(owed, time)
  /\ owed # NoOwed => time < owed.due

\* Every step of the recognizer leaves a tap that is ahead of its last frame by
\* no more than one of the two durations.
THEOREM RecInvariant == RecSpec => []RecInv
<1>1. RecInit => RecInv
  BY NoOwedFacts DEF RecInit, RecInv, Reach
<1>2. RecInv /\ [RecNext]_<<owed, time>> => RecInv'
  <2> SUFFICES ASSUME RecInv, [RecNext]_<<owed, time>> PROVE RecInv'
    OBVIOUS
  <2>1. CASE Resolve
    BY <2>1, NoOwedFacts DEF Resolve, RecInv, Reach
  <2>2. ASSUME NEW touches \in SUBSET {"Down", "Up"}, TakeFrame(touches)
        PROVE  RecInv'
    <3>1. time' \in Nat /\ time <= time' /\ owed' \in OwedAfter(owed, touches, time')
      BY <2>2 DEF TakeFrame, RecInv
    <3>2. Reach(owed, time')
      BY <3>1, TapFacts, TapTimesAssumption DEF RecInv, Reach
    <3>3. /\ owed' \in Taps /\ Reach(owed', time')
          /\ owed' # NoOwed => time' < owed'.due
      BY <3>1, <3>2, FrameTap DEF RecInv
    <3> QED BY <3>1, <3>3 DEF RecInv, Reach
  <2>3. CASE UNCHANGED <<owed, time>>
    BY <2>3 DEF RecInv, Reach
  <2> QED BY <2>1, <2>2, <2>3 DEF RecNext
<1> QED BY <1>1, <1>2, PTL DEF RecSpec

\* The session's alarm never has to wait longer than one of the durations, and
\* never for a time that has passed.
THEOREM OwedTapIsPrompt == RecSpec => []OwedIsPrompt
<1>1. RecInv => OwedIsPrompt
  BY DEF RecInv, Reach, OwedIsPrompt
<1> QED BY <1>1, RecInvariant, PTL

=============================================================================
