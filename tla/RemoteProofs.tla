---------------------------- MODULE RemoteProofs ----------------------------
(***************************************************************************)
(* What holds of Remote and of the Server in it for any requests, bodies   *)
(* and verbs.                                                              *)
(*                                                                         *)
(* Three invariants that do not need each other: where the messages of a   *)
(* body are while the server takes it in, what a call and its request know *)
(* of the effect, and which of the clients is open.                        *)
(***************************************************************************)
EXTENDS Remote, SequenceTheorems, FiniteSetTheorems, TLAPS

\* The guard has counted what it keeps, and keeps what is no longer on the wire.
GuardHas(i, body) ==
    /\ i.wire # <<>> /\ i.kept \o i.wire = body
    /\ i.read = <<>> /\ ~ i.cut
    /\ \E total \in Totals(i.kept) : total[Len(i.kept)] = i.seen

\* The route has all of the body, unless the sender went away, and then it has
\* not enough.
RouteHas(i, body) ==
    /\ Fits(i.read \o i.kept)
    /\ IF i.cut THEN Len(i.read) + Len(i.kept) < Len(body) ELSE i.read \o i.kept = body

IntakeOf(x) ==
    /\ stage[x] \in {"none", "answered", "lost"} => intake[x] = Nothing
    /\ stage[x] = "arrived" => intake[x] = Coming(req[x].body)
    /\ stage[x] = "guard" => GuardHas(intake[x], req[x].body)
    /\ stage[x] \in {"route", "reading"} => RouteHas(intake[x], req[x].body)
    /\ stage[x] = "route" => intake[x].read = <<>>
    /\ stage[x] = "adapter" =>
         /\ Fits(intake[x].read \o intake[x].kept)
         /\ req[x].verb \in JSONVerbs => intake[x].read = req[x].body

\* The server has done what is asked only when it has answered so, has got into
\* trouble or had done part of it; a refusal is final.
CallOf(c) ==
    /\ at[c] = "idle" => stage[c] = "none"
    /\ stage[c] = "answered" => answer[c] # "none"
    /\ effects[c] = 1 => /\ stage[c] = "answered" /\ req[c].verb \in Writes
                         /\ answer[c] \in Troubles \cup {"ok"} \cup LateRefusals(req[c].verb)
    /\ stage[c] = "answered" /\ answer[c] = "ok" /\ req[c].verb \in Writes => effects[c] = 1
    /\ at[c] = "probe" => req[c] = Probe
    /\ at[c] \in {"request", "redirected"} => req[c].verb = verb[c]
    /\ outcome[c] # "none" => at[c] = "ended"
    /\ outcome[c] = "ok" /\ verb[c] \in Writes => effects[c] = 1
    /\ outcome[c] = "closed" => effects[c] = 0
    /\ outcome[c] \in Refusals => effects[c] = 0 \/ verb[c] \in Partial
    /\ outcome[c] \in Refusals \cup {"closed"} =>
         stage[c] \in {"none", "answered", "lost"} \/ req[c].verb \notin Writes

\* The synchronous adapter has its client from beginning to end.  The other
\* one makes it when it is needed, and once more for a probe that comes back
\* after close().
ClientInv ==
    /\ kind = "sync" => /\ client = 1 /\ clients[2] = "unused"
                        /\ clients[1] = IF closed THEN "closed" ELSE "open"
    /\ kind = "async" =>
         \/ client = None /\ clients[1] = "unused" /\ clients[2] = "unused"
         \/ ~ closed /\ client = 1 /\ clients[1] = "open" /\ clients[2] = "unused"
         \/ closed /\ client = None /\ clients[1] = "closed" /\ clients[2] = "unused"
         \/ closed /\ client = 2 /\ clients[1] = "closed" /\ clients[2] = "open" /\ probing
    /\ \A c \in Slots : at[c] = "probe" => clients[1] # "unused" /\ (closed => probing)

IntakeInv == \A x \in Slots : IntakeOf(x)
CallInv   == \A c \in Slots : CallOf(c)

IInv == TypeOK /\ IntakeInv /\ CallInv /\ ClientInv

-----------------------------------------------------------------------------
(* Bodies *)

\* The running totals of the messages kept grow with the next one.
LEMMA TotalsGrow ==
    ASSUME NEW messages \in Seq(Nat), NEW total \in Totals(messages), NEW size \in Nat,
           total[Len(messages)] + size <= MaxBytes
    PROVE  \E more \in Totals(Append(messages, size)) :
               more[Len(Append(messages, size))] = total[Len(messages)] + size
  <1> DEFINE n == Len(messages)
             more == [k \in 0..(n + 1) |-> IF k = n + 1 THEN total[n] + size ELSE total[k]]
  <1>1. /\ n \in Nat /\ Len(Append(messages, size)) = n + 1
        /\ \A k \in 1..n : Append(messages, size)[k] = messages[k]
        /\ Append(messages, size)[n + 1] = size
    OBVIOUS
  <1>2. /\ total \in [0..n -> 0..MaxBytes] /\ total[0] = 0
        /\ \A k \in 1..n : total[k] = total[k - 1] + messages[k]
    BY DEF Totals
  <1>3. more \in [0..(n + 1) -> 0..MaxBytes]
    BY <1>1, <1>2, ServerAssumption
  <1>4. more[0] = 0
    BY <1>1, <1>2
  <1>5. ASSUME NEW k \in 1..(n + 1)
        PROVE  more[k] = more[k - 1] + Append(messages, size)[k]
    <2>1. k \in 0..(n + 1) /\ k - 1 \in 0..(n + 1) /\ k - 1 # n + 1
      BY <1>1
    <2>2. more[k - 1] = total[k - 1]
      BY <2>1
    <2>3. CASE k = n + 1
      BY <1>1, <2>1, <2>2, <2>3
    <2>4. CASE k # n + 1
      <3>1. k \in 1..n
        BY <1>1, <2>4
      <3>2. more[k] = total[k]
        BY <2>1, <2>4
      <3>3. QED BY <1>1, <1>2, <2>2, <3>1, <3>2
    <2>5. QED BY <2>3, <2>4
  <1> HIDE DEF more
  <1>6. more \in Totals(Append(messages, size))
    BY <1>1, <1>3, <1>4, <1>5 DEF Totals
  <1>7. more[n + 1] = total[n] + size
    BY <1>1 DEF more
  <1>8. QED BY <1>1, <1>6, <1>7

\* No message is within the limit, and counts nothing.
LEMMA NoMessages == \E total \in Totals(<<>>) : total[Len(<<>>)] = 0
  <1> DEFINE zero == [k \in 0..0 |-> 0]
  <1>1. zero \in Totals(<<>>)
    BY ServerAssumption DEF Totals
  <1>2. zero[Len(<<>>)] = 0
    OBVIOUS
  <1>3. QED BY <1>1, <1>2

\* What was kept before the sender went away is not all.
LEMMA Shorter ==
    ASSUME NEW kept \in Seq(Nat), NEW wire \in Seq(Nat), wire # <<>>
    PROVE  Len(<<>>) + Len(kept) < Len(kept \o wire)
  <1>1. Len(kept \o wire) = Len(kept) + Len(wire)
    BY ConcatProperties
  <1>2. Len(wire) \in Nat \ {0} /\ Len(kept) \in Nat /\ Len(<<>>) = 0
    BY EmptySeq, LenProperties
  <1>3. QED BY <1>1, <1>2

\* A message that goes from the head of what is to come to the end of what has
\* come leaves the whole as it is.
LEMMA MoveOn ==
    ASSUME NEW past \in Seq(Nat), NEW coming \in Seq(Nat), coming # <<>>
    PROVE  /\ Head(coming) \in Nat /\ Tail(coming) \in Seq(Nat)
           /\ Len(Tail(coming)) = Len(coming) - 1
           /\ Append(past, Head(coming)) \in Seq(Nat)
           /\ Append(past, Head(coming)) \o Tail(coming) = past \o coming
           /\ Len(Append(past, Head(coming))) + Len(Tail(coming)) = Len(past) + Len(coming)
  <1> DEFINE moved == Append(past, Head(coming))
  <1>1. /\ Head(coming) \in Nat /\ Tail(coming) \in Seq(Nat)
        /\ Len(Tail(coming)) = Len(coming) - 1 /\ Len(coming) \in Nat \ {0}
        /\ \A i \in 1..(Len(coming) - 1) : Tail(coming)[i] = coming[i + 1]
        /\ Head(coming) = coming[1]
    BY HeadTailProperties
  <1>2. /\ moved \in Seq(Nat) /\ Len(moved) = Len(past) + 1 /\ Len(past) \in Nat
        /\ \A i \in 1..Len(past) : moved[i] = past[i]
        /\ moved[Len(past) + 1] = coming[1]
    BY <1>1
  <1> HIDE DEF moved
  <1>3. /\ moved \o Tail(coming) \in Seq(Nat)
        /\ Len(moved \o Tail(coming)) = Len(moved) + Len(Tail(coming))
        /\ \A i \in 1..(Len(moved) + Len(Tail(coming))) :
             (moved \o Tail(coming))[i] =
                 IF i <= Len(moved) THEN moved[i] ELSE Tail(coming)[i - Len(moved)]
    BY <1>1, <1>2, ConcatProperties
  <1>4. /\ past \o coming \in Seq(Nat)
        /\ Len(past \o coming) = Len(past) + Len(coming)
        /\ \A i \in 1..(Len(past) + Len(coming)) :
             (past \o coming)[i] = IF i <= Len(past) THEN past[i] ELSE coming[i - Len(past)]
    BY ConcatProperties
  <1>5. Len(moved \o Tail(coming)) = Len(past \o coming)
    BY <1>1, <1>2, <1>3, <1>4
  <1>6. ASSUME NEW i \in 1..Len(moved \o Tail(coming))
        PROVE  (moved \o Tail(coming))[i] = (past \o coming)[i]
    <2>1. i \in 1..(Len(moved) + Len(Tail(coming))) /\ i \in 1..(Len(past) + Len(coming))
      BY <1>1, <1>2, <1>3
    <2>2. CASE i <= Len(past)
      BY <1>2, <1>3, <1>4, <2>1, <2>2
    <2>3. CASE i = Len(past) + 1
      BY <1>2, <1>3, <1>4, <2>1, <2>3
    <2>4. CASE i > Len(past) + 1
      <3>1. i - Len(moved) \in 1..(Len(coming) - 1) /\ (i - Len(moved)) + 1 = i - Len(past)
        BY <1>1, <1>2, <2>1, <2>4
      <3>2. ~ (i <= Len(moved)) /\ ~ (i <= Len(past))
        BY <1>2, <2>1, <2>4
      <3>3. (moved \o Tail(coming))[i] = Tail(coming)[i - Len(moved)]
        <4>1. (moved \o Tail(coming))[i] =
                  IF i <= Len(moved) THEN moved[i] ELSE Tail(coming)[i - Len(moved)]
          BY <1>3, <2>1
        <4>2. QED BY <3>2, <4>1
      <3>4. (past \o coming)[i] = coming[i - Len(past)]
        <4>1. (past \o coming)[i] = IF i <= Len(past) THEN past[i] ELSE coming[i - Len(past)]
          BY <1>4, <2>1
        <4>2. QED BY <3>2, <4>1
      <3>5. QED BY <1>1, <3>1, <3>3, <3>4
    <2>5. QED BY <1>2, <2>1, <2>2, <2>3, <2>4
  <1>7. moved \o Tail(coming) = past \o coming
    BY <1>3, <1>4, <1>5, <1>6, SeqEqual
  <1>8. Len(moved) + Len(Tail(coming)) = Len(past) + Len(coming)
    BY <1>1, <1>2
  <1>9. QED BY <1>1, <1>2, <1>7, <1>8 DEF moved

\* What is as long as the body, of what the route has, is the body.
LEMMA Whole ==
    ASSUME NEW read \in Seq(Nat), NEW kept \in Seq(Nat), NEW body \in Seq(Nat),
           Len(read) = Len(body)
    PROVE  /\ ~ (Len(read) + Len(kept) < Len(body))
           /\ read \o kept = body => read = body
  <1>1. Len(read) \in Nat /\ Len(kept) \in Nat /\ Len(body) \in Nat
    BY LenProperties
  <1>2. ASSUME read \o kept = body PROVE read = body
    <2>1. Len(read \o kept) = Len(read) + Len(kept)
      BY ConcatProperties
    <2>2. Len(kept) = 0
      BY <1>1, <1>2, <2>1
    <2>3. kept = <<>>
      BY <2>2, EmptySeq
    <2>4. QED BY <1>2, <2>3, ConcatEmptySeq
  <1>3. QED BY <1>1, <1>2

-----------------------------------------------------------------------------
(* Types *)

Stages == {"none", "arrived", "guard", "route", "reading", "adapter", "answered", "lost"}

Intake == [wire : Seq(Nat), seen : Nat, kept : Seq(Nat), cut : BOOLEAN, read : Seq(Nat)]

Places == {"idle", "other", "probe", "request", "redirected", "ended"}

AdapterTypes ==
    /\ kind \in {"sync", "async"} /\ closed \in BOOLEAN /\ known \in BOOLEAN
    /\ clients \in [ClientIds -> {"unused", "open", "closed"}]
    /\ client \in ClientIds \cup {None}
    /\ verb \in [Slots -> Verbs] /\ own \in [Slots -> ClientIds \cup {None}]
    /\ at \in [Slots -> Places]
    /\ outcome \in [Slots -> Outcomes]
    /\ probing \in BOOLEAN

LEMMA TypesApart ==
    /\ TypeOK <=> ServerTypeOK /\ AdapterTypes
    /\ TypeOK' <=> ServerTypeOK' /\ AdapterTypes'
  BY DEF TypeOK, AdapterTypes, Places

\* The types of the server, with the names used here.
LEMMA ServerTypes ==
    /\ ServerTypeOK <=>
         /\ req \in [Slots -> Request] /\ stage \in [Slots -> Stages]
         /\ intake \in [Slots -> Intake] /\ gone \subseteq Slots /\ reached \subseteq Slots
         /\ answer \in [Slots -> Answers] /\ effects \in [Slots -> 0..1]
    /\ ServerTypeOK' <=>
         /\ req' \in [Slots -> Request] /\ stage' \in [Slots -> Stages]
         /\ intake' \in [Slots -> Intake] /\ gone' \subseteq Slots /\ reached' \subseteq Slots
         /\ answer' \in [Slots -> Answers] /\ effects' \in [Slots -> 0..1]
  BY DEF ServerTypeOK, Stages, Intake

LEMMA ComingTypes ==
    /\ \A body \in Seq(Nat) : Coming(body) \in Intake
    /\ Nothing \in Intake
  <1>1. <<>> \in Seq(Nat)
    OBVIOUS
  <1>2. QED BY <1>1 DEF Coming, Nothing, Intake

LEMMA ProbeType == Probe \in Request
  <1>1. <<0>> \in Seq(Nat) /\ <<0>> # <<>>
    OBVIOUS
  <1>2. QED BY <1>1 DEF Probe, NoRequest, Request, Body

\* What the three ways to go on with a request write.
LEMMA SentWrites ==
    ASSUME ServerTypeOK, NEW x \in Slots, NEW r \in Request, Sent(x, r)
    PROVE  /\ ServerTypeOK'
           /\ stage'[x] = "arrived" /\ intake'[x] = Coming(r.body)
           /\ req'[x] = r /\ answer'[x] = "none" /\ effects'[x] = effects[x]
           /\ \A y \in Slots \ {x} :
                /\ stage'[y] = stage[y] /\ intake'[y] = intake[y] /\ req'[y] = req[y]
                /\ answer'[y] = answer[y] /\ effects'[y] = effects[y]
  <1>1. Coming(r.body) \in Intake
    BY ComingTypes DEF Request, Body
  <1>2. ServerTypeOK'
    BY <1>1, ServerTypes DEF Sent, Stages, Answers
  <1>3. QED BY <1>2, ServerTypes DEF Sent

LEMMA EnterWrites ==
    ASSUME ServerTypeOK, NEW x \in Slots, NEW where \in Stages, NEW i \in Intake,
           Enter(x, where, i), UNCHANGED <<req, gone>>
    PROVE  /\ stage'[x] = where /\ intake'[x] = i /\ answer'[x] = answer[x]
           /\ \A y \in Slots \ {x} :
                stage'[y] = stage[y] /\ intake'[y] = intake[y] /\ answer'[y] = answer[y]
           /\ reached' \subseteq Slots /\ effects' \in [Slots -> 0..1] => ServerTypeOK'
  BY ServerTypes DEF Enter

LEMMA ReplyWrites ==
    ASSUME ServerTypeOK, NEW x \in Slots, NEW a \in Answers, Reply(x, a)
    PROVE  /\ stage'[x] = "answered" /\ intake'[x] = Nothing /\ answer'[x] = a
           /\ \A y \in Slots \ {x} :
                stage'[y] = stage[y] /\ intake'[y] = intake[y] /\ answer'[y] = answer[y]
           /\ stage' \in [Slots -> Stages] /\ intake' \in [Slots -> Intake]
           /\ answer' \in [Slots -> Answers]
  BY ServerTypes, ComingTypes DEF Reply, Stages

-----------------------------------------------------------------------------
(* A body on its way *)

LEMMA IntakeStays ==
    ASSUME NEW y \in Slots, IntakeOf(y),
           stage'[y] = stage[y], intake'[y] = intake[y], req'[y] = req[y]
    PROVE  IntakeOf(y)'
  BY DEF IntakeOf

LEMMA SentIntake ==
    ASSUME ServerTypeOK, IntakeInv, NEW x \in Slots, NEW r \in Request, Sent(x, r)
    PROVE  IntakeInv'
  <1>1. IntakeOf(x)'
    BY SentWrites DEF IntakeOf
  <1>2. \A y \in Slots \ {x} : IntakeOf(y)'
    BY SentWrites, IntakeStays DEF IntakeInv
  <1>3. QED BY <1>1, <1>2 DEF IntakeInv

LEMMA ReplyIntake ==
    ASSUME ServerTypeOK, IntakeInv, NEW x \in Slots, NEW a \in Answers, Reply(x, a),
           UNCHANGED req
    PROVE  IntakeInv'
  <1>1. IntakeOf(x)'
    BY ReplyWrites DEF IntakeOf
  <1>2. \A y \in Slots \ {x} : IntakeOf(y)'
    BY ReplyWrites, IntakeStays DEF IntakeInv
  <1>3. QED BY <1>1, <1>2 DEF IntakeInv

LEMMA EnterIntake ==
    ASSUME ServerTypeOK, IntakeInv, NEW x \in Slots, NEW where \in Stages, NEW i \in Intake,
           Enter(x, where, i), UNCHANGED <<req, gone, reached, effects>>, IntakeOf(x)'
    PROVE  ServerTypeOK' /\ IntakeInv'
  <1>1. \A y \in Slots \ {x} : IntakeOf(y)'
    BY EnterWrites, IntakeStays DEF IntakeInv
  <1>2. ServerTypeOK'
    BY EnterWrites, ServerTypes
  <1>3. QED BY <1>1, <1>2 DEF IntakeInv

LEMMA ReplyTypes ==
    ASSUME ServerTypeOK, IntakeInv, NEW x \in Slots, NEW a \in Answers, Reply(x, a),
           UNCHANGED <<req, gone, reached, effects>>
    PROVE  ServerTypeOK' /\ IntakeInv'
  BY ReplyWrites, ReplyIntake, ServerTypes

\* The size guard.
LEMMA GuardStep ==
    ASSUME ServerTypeOK, IntakeInv, NEW x \in Slots,
           CheckLength(x) \/ GuardReceives(x) \/ GuardLosesSender(x)
    PROVE  ServerTypeOK' /\ IntakeInv'
  <1>1. /\ intake[x] \in Intake /\ req[x] \in Request /\ IntakeOf(x)
        /\ "other" \in Answers /\ {"guard", "route"} \subseteq Stages
    BY ServerTypes DEF IntakeInv, Answers, Troubles, Stages
  <1>2. req[x].body \in Seq(Nat) /\ req[x].body # <<>>
    BY <1>1 DEF Request, Body
  <1>3. CASE TooLarge(x) /\ UNCHANGED <<req, gone, reached, effects>>
    BY <1>1, <1>3, ReplyTypes DEF TooLarge
  <1>4. CASE CheckLength(x) /\ Enter(x, "guard", intake[x])
    <2>1. /\ stage[x] = "arrived" /\ UNCHANGED <<req, gone, reached, effects>>
          /\ stage'[x] = "guard" /\ intake'[x] = intake[x] /\ req'[x] = req[x]
      BY <1>1, <1>4, EnterWrites DEF CheckLength
    <2>2. intake[x] = Coming(req[x].body)
      BY <1>1, <2>1 DEF IntakeOf
    <2>3. /\ intake[x].wire = req[x].body /\ intake[x].seen = 0 /\ intake[x].kept = <<>>
          /\ ~ intake[x].cut /\ intake[x].read = <<>>
      BY <2>2 DEF Coming
    <2>4. <<>> \o req[x].body = req[x].body
      BY <1>2, ConcatEmptySeq
    <2>5. GuardHas(intake[x], req[x].body)
      BY <1>2, <2>3, <2>4, NoMessages DEF GuardHas
    <2>6. IntakeOf(x)'
      BY <2>1, <2>5 DEF IntakeOf
    <2>7. QED BY <1>1, <1>4, <2>1, <2>6, EnterIntake
  <1>5. CASE GuardReceives(x) /\ ~ TooLarge(x)
    <2> DEFINE i == intake[x]
               size == Head(i.wire)
               rest == Tail(i.wire)
               j == [i EXCEPT !.wire = rest, !.seen = i.seen + size, !.kept = Append(i.kept, size)]
               where == IF rest = <<>> THEN "route" ELSE "guard"
    <2>1. /\ stage[x] = "guard" /\ i.wire # <<>> /\ UNCHANGED <<req, gone, reached, effects>>
          /\ i.seen + size <= MaxBytes /\ Enter(x, where, j)
      BY <1>5 DEF GuardReceives, Count
    <2>2. /\ i.wire \in Seq(Nat) /\ i.kept \in Seq(Nat) /\ i.seen \in Nat /\ i.cut \in BOOLEAN
          /\ i.read \in Seq(Nat)
      BY <1>1 DEF Intake
    <2>3. /\ i.kept \o i.wire = req[x].body /\ i.read = <<>> /\ ~ i.cut
          /\ \E total \in Totals(i.kept) : total[Len(i.kept)] = i.seen
      BY <1>1, <2>1 DEF IntakeOf, GuardHas
    <2>4. /\ size \in Nat /\ rest \in Seq(Nat) /\ Append(i.kept, size) \in Seq(Nat)
          /\ Append(i.kept, size) \o rest = req[x].body
      BY <2>1, <2>2, <2>3, MoveOn
    <2>5. \E more \in Totals(Append(i.kept, size)) :
              more[Len(Append(i.kept, size))] = i.seen + size
      BY <2>1, <2>2, <2>3, <2>4, TotalsGrow
    <2>6. /\ j \in Intake
          /\ j.wire = rest /\ j.seen = i.seen + size /\ j.kept = Append(i.kept, size)
          /\ j.cut = i.cut /\ j.read = i.read
      <3>1. i \in Intake /\ i.seen + size \in Nat
        BY <1>1, <2>2, <2>4
      <3> HIDE DEF i, size, rest
      <3>2. QED BY <2>4, <3>1 DEF Intake
    <2> HIDE DEF j, size, rest
    <2>7. where \in Stages /\ where \in {"guard", "route"}
      BY DEF Stages
    <2>8. /\ stage'[x] = where /\ intake'[x] = j /\ req'[x] = req[x]
      BY <1>1, <2>1, <2>6, <2>7, EnterWrites
    <2>9. IntakeOf(x)'
      <3>1. CASE rest # <<>>
        <4>1. GuardHas(j, req[x].body)
          BY <2>3, <2>4, <2>5, <2>6, <3>1 DEF GuardHas
        <4>2. QED BY <2>8, <3>1, <4>1 DEF IntakeOf
      <3>2. CASE rest = <<>>
        <4>1. Append(i.kept, size) \o <<>> = Append(i.kept, size)
              /\ <<>> \o Append(i.kept, size) = Append(i.kept, size)
          BY <2>4, ConcatEmptySeq
        <4>2. Fits(Append(i.kept, size))
          BY <2>5 DEF Fits
        <4>3. RouteHas(j, req[x].body)
          BY <2>3, <2>4, <2>6, <3>2, <4>1, <4>2 DEF RouteHas
        <4>4. QED BY <2>3, <2>6, <2>8, <3>2, <4>3 DEF IntakeOf
      <3>3. QED BY <3>1, <3>2
    <2>10. QED BY <1>1, <2>1, <2>6, <2>7, <2>9, EnterIntake
  <1>6. CASE GuardLosesSender(x)
    <2> DEFINE i == intake[x]
               j == [i EXCEPT !.wire = <<>>, !.cut = TRUE]
    <2>1. /\ stage[x] = "guard" /\ UNCHANGED <<req, gone, reached, effects>>
          /\ Enter(x, "route", j)
      BY <1>6 DEF GuardLosesSender
    <2>2. /\ i.wire \in Seq(Nat) /\ i.kept \in Seq(Nat) /\ i.seen \in Nat /\ <<>> \in Seq(Nat)
      BY <1>1 DEF Intake
    <2>3. /\ i.wire # <<>> /\ i.kept \o i.wire = req[x].body /\ i.read = <<>>
          /\ \E total \in Totals(i.kept) : total[Len(i.kept)] = i.seen
      BY <1>1, <2>1 DEF IntakeOf, GuardHas
    <2>4. /\ j \in Intake
          /\ j.kept = i.kept /\ j.cut /\ j.read = i.read
      BY <1>1, <2>2 DEF Intake
    <2> HIDE DEF j
    <2>5. stage'[x] = "route" /\ intake'[x] = j /\ req'[x] = req[x]
      BY <1>1, <2>1, <2>4, EnterWrites
    <2>6. Len(<<>>) + Len(i.kept) < Len(req[x].body)
      BY <2>2, <2>3, Shorter
    <2>7. Fits(<<>> \o i.kept)
      <3>1. <<>> \o i.kept = i.kept
        BY <2>2, ConcatEmptySeq
      <3>2. QED BY <2>3, <3>1 DEF Fits
    <2>8. IntakeOf(x)'
      <3>1. RouteHas(j, req[x].body)
        BY <2>3, <2>4, <2>6, <2>7 DEF RouteHas
      <3>2. QED BY <2>3, <2>4, <2>5, <3>1 DEF IntakeOf
    <2>9. QED BY <1>1, <2>1, <2>4, <2>8, EnterIntake
  <1>7. QED BY <1>3, <1>4, <1>5, <1>6 DEF CheckLength, GuardReceives

\* The route: before the body, and what it reads of it.
LEMMA RouteStep ==
    ASSUME ServerTypeOK, IntakeInv, NEW x \in Slots,
           Route(x) \/ ReadMessage(x) \/ ParseBody(x)
    PROVE  ServerTypeOK' /\ IntakeInv'
  <1>1. /\ intake[x] \in Intake /\ req[x] \in Request /\ IntakeOf(x)
        /\ UNCHANGED <<req, gone, reached, effects>>
        /\ {"reading", "adapter"} \subseteq Stages /\ Nothing \in Intake
        /\ {"ok", "other", "no route", "invalid_request"} \subseteq Answers
    BY ServerTypes, ComingTypes
       DEF IntakeInv, Route, ReadMessage, ParseBody, Stages, Answers, Refusals, Troubles
  <1> DEFINE i == intake[x]
  <1>2. /\ i.kept \in Seq(Nat) /\ i.read \in Seq(Nat) /\ i.cut \in BOOLEAN
        /\ req[x].body \in Seq(Nat)
    BY <1>1 DEF Intake, Request, Body
  <1>3. CASE \E a \in {"ok", "other", "no route", "invalid_request"} : Reply(x, a)
    BY <1>1, <1>3, ReplyTypes
  <1>4. CASE stage[x] = "route" /\ Enter(x, "adapter", Nothing) /\ req[x].verb \notin JSONVerbs
    <2>1. stage'[x] = "adapter" /\ intake'[x] = Nothing /\ req'[x] = req[x]
      BY <1>1, <1>4, EnterWrites
    <2>2. Nothing.read = <<>> /\ Nothing.kept = <<>> /\ <<>> \o <<>> = <<>>
      BY DEF Nothing, Coming
    <2>3. Fits(Nothing.read \o Nothing.kept)
      BY <2>2, NoMessages DEF Fits
    <2>4. IntakeOf(x)'
      BY <1>4, <2>1, <2>3 DEF IntakeOf
    <2>5. QED BY <1>1, <1>4, <2>4, EnterIntake
  <1>5. CASE stage[x] = "route" /\ Enter(x, "reading", i)
    <2>1. stage'[x] = "reading" /\ intake'[x] = i /\ req'[x] = req[x]
      BY <1>1, <1>5, EnterWrites
    <2>2. IntakeOf(x)'
      BY <1>1, <1>5, <2>1 DEF IntakeOf
    <2>3. QED BY <1>1, <1>5, <2>2, EnterIntake
  <1>6. ASSUME stage[x] = "reading", i.kept # <<>>, NEW j, Enter(x, "reading", j),
               j = [i EXCEPT !.kept = Tail(i.kept), !.read = Append(i.read, Head(i.kept))]
        PROVE  ServerTypeOK' /\ IntakeInv'
    <2>1. /\ Head(i.kept) \in Nat /\ Tail(i.kept) \in Seq(Nat)
          /\ Append(i.read, Head(i.kept)) \in Seq(Nat)
          /\ Append(i.read, Head(i.kept)) \o Tail(i.kept) = i.read \o i.kept
          /\ Len(Append(i.read, Head(i.kept))) + Len(Tail(i.kept)) = Len(i.read) + Len(i.kept)
      BY <1>2, <1>6, MoveOn
    <2>2. /\ j \in Intake
          /\ j.kept = Tail(i.kept) /\ j.read = Append(i.read, Head(i.kept)) /\ j.cut = i.cut
      <3>1. i \in Intake
        BY <1>1
      <3> HIDE DEF i
      <3>2. QED BY <1>6, <2>1, <3>1 DEF Intake
    <2>3. RouteHas(i, req[x].body)
      BY <1>1, <1>6 DEF IntakeOf
    <2>4. RouteHas(j, req[x].body)
      <3>1. Len(j.read) + Len(j.kept) = Len(i.read) + Len(i.kept)
        BY <2>1, <2>2
      <3> HIDE DEF i
      <3>2. QED BY <2>1, <2>2, <2>3, <3>1 DEF RouteHas
    <2>5. stage'[x] = "reading" /\ intake'[x] = j /\ req'[x] = req[x]
      <3> HIDE DEF i
      <3>1. "reading" \in Stages /\ UNCHANGED <<req, gone>>
        BY <1>1
      <3>2. Enter(x, "reading", j)
        BY <1>6
      <3>3. j \in Intake
        BY <2>2
      <3>4. QED BY <3>1, <3>2, <3>3, EnterWrites
    <2>6. IntakeOf(x)'
      BY <2>4, <2>5 DEF IntakeOf
    <2>7. QED BY <1>1, <1>6, <2>2, <2>6, EnterIntake
  <1>7. CASE stage[x] = "reading" /\ Complete(x) /\ Enter(x, "adapter", i)
    <2>1. stage'[x] = "adapter" /\ intake'[x] = i /\ req'[x] = req[x]
      BY <1>1, <1>7, EnterWrites
    <2>2. RouteHas(i, req[x].body) /\ Len(i.read) = Len(req[x].body)
      BY <1>1, <1>7 DEF IntakeOf, Complete
    <2>3. i.read = req[x].body
      <3> HIDE DEF i
      <3>1. /\ ~ (Len(i.read) + Len(i.kept) < Len(req[x].body))
            /\ i.read \o i.kept = req[x].body => i.read = req[x].body
        BY <1>2, <2>2, Whole
      <3>2. QED BY <2>2, <3>1 DEF RouteHas
    <2>4. IntakeOf(x)'
      BY <2>1, <2>2, <2>3 DEF IntakeOf, RouteHas
    <2>5. QED BY <1>1, <1>7, <2>4, EnterIntake
  <1>8. CASE Route(x)
    <2>1. req[x].verb \in Verbs \cup {"capabilities"} /\ req[x].routed \in BOOLEAN
      BY <1>1 DEF Request
    <2>2. QED
      BY <1>3, <1>4, <1>5, <1>8, <2>1 DEF Route, Routed, Verbs, JSONVerbs, QueryVerbs
  <1>9. CASE ReadMessage(x)
    BY <1>3, <1>6, <1>9 DEF ReadMessage
  <1>10. CASE ParseBody(x)
    <2>1. req[x].args \in {"valid", "incomplete", "malformed"}
      BY <1>1 DEF Request
    <2>2. QED BY <1>3, <1>7, <1>10, <2>1 DEF ParseBody
  <1>11. QED BY <1>8, <1>9, <1>10
-----------------------------------------------------------------------------
(* A call and its request *)

LEMMA CallStays ==
    ASSUME NEW y \in Slots, CallOf(y), at'[y] = at[y], outcome'[y] = outcome[y],
           verb'[y] = verb[y], stage'[y] = stage[y], answer'[y] = answer[y],
           effects'[y] = effects[y], req'[y] = req[y]
    PROVE  CallOf(y)'
  BY DEF CallOf

\* The server on its way to the adapter does nothing yet, and does not say
\* that it has.
LEMMA ServerCall ==
    ASSUME ServerTypeOK, IntakeInv, NEW x \in Slots, CallOf(x), ServerStep(x),
           UNCHANGED <<at, outcome, verb>>
    PROVE  /\ ServerTypeOK' /\ IntakeInv' /\ CallOf(x)'
           /\ \A y \in Slots \ {x} : /\ stage'[y] = stage[y] /\ answer'[y] = answer[y]
                                     /\ effects'[y] = effects[y] /\ req'[y] = req[y]
  <1>1. effects[x] \in 0..1 /\ req[x] \in Request
    BY ServerTypes
  <1>2. {"guard", "route", "reading", "adapter"} \subseteq Stages
        /\ {"ok", "other", "no route", "invalid_request"} \subseteq Answers
    BY DEF Stages, Answers, Refusals, Troubles
  <1>3. ASSUME stage[x] \in {"arrived", "guard", "route", "reading"},
               UNCHANGED <<req, gone, reached, effects>>,
               NEW where \in {"guard", "route", "reading", "adapter"}, NEW i, Enter(x, where, i)
        PROVE  /\ CallOf(x)'
               /\ \A y \in Slots \ {x} : stage'[y] = stage[y] /\ answer'[y] = answer[y]
    <2>1. /\ stage'[x] = where
          /\ \A y \in Slots \ {x} : stage'[y] = stage[y]
          /\ UNCHANGED answer
      BY <1>3, ServerTypes DEF Enter
    <2>2. QED BY <1>1, <1>3, <2>1 DEF CallOf
  <1>4. ASSUME stage[x] \in {"arrived", "guard", "route", "reading"},
               UNCHANGED <<req, gone, reached, effects>>,
               NEW a \in {"ok", "other", "no route", "invalid_request"}, Reply(x, a),
               a = "ok" => req[x].verb \notin Writes
        PROVE  /\ CallOf(x)'
               /\ \A y \in Slots \ {x} : stage'[y] = stage[y] /\ answer'[y] = answer[y]
    <2>1. /\ stage'[x] = "answered" /\ answer'[x] = a
          /\ \A y \in Slots \ {x} : stage'[y] = stage[y] /\ answer'[y] = answer[y]
      BY <1>2, <1>4, ReplyWrites
    <2>2. QED BY <1>1, <1>4, <2>1 DEF CallOf
  <1>5. CASE ~ CallAdapter(x)
    <2>1. ServerTypeOK' /\ IntakeInv' /\ UNCHANGED <<req, gone, reached, effects>>
      BY <1>5, GuardStep, RouteStep DEF ServerStep, CheckLength, GuardReceives, GuardLosesSender,
                                        Route, ReadMessage, ParseBody
    <2>2. CASE CheckLength(x) \/ GuardReceives(x) \/ GuardLosesSender(x)
      <3>1. \/ TooLarge(x)
            \/ \E where \in {"guard", "route"} : \E i : Enter(x, where, i)
        BY <2>2 DEF CheckLength, GuardReceives, GuardLosesSender
      <3>2. stage[x] \in {"arrived", "guard"}
        BY <2>2 DEF CheckLength, GuardReceives, GuardLosesSender
      <3>3. QED BY <1>3, <1>4, <2>1, <3>1, <3>2 DEF TooLarge
    <2>3. CASE Route(x)
      <3>1. /\ req[x].verb \in Verbs \cup {"capabilities"} /\ req[x].routed \in BOOLEAN
            /\ stage[x] = "route"
        BY <1>1, <2>3 DEF Request, Route
      <3>2. \/ Reply(x, "no route") \/ Reply(x, "invalid_request")
            \/ Enter(x, "adapter", Nothing) \/ Enter(x, "reading", intake[x])
        BY <2>3, <3>1 DEF Route, Routed, Verbs, JSONVerbs, QueryVerbs
      <3>3. QED BY <1>3, <1>4, <2>1, <3>1, <3>2
    <2>4. CASE ReadMessage(x) \/ ParseBody(x)
      <3>1. req[x].args \in {"valid", "incomplete", "malformed"}
        BY <1>1 DEF Request
      <3>2. \/ Reply(x, "other") \/ Reply(x, "invalid_request")
            \/ \E where \in {"reading", "adapter"} : \E i : Enter(x, where, i)
        BY <2>4, <3>1 DEF ReadMessage, ParseBody
      <3>3. stage[x] = "reading"
        BY <2>4 DEF ReadMessage, ParseBody
      <3>4. QED BY <1>3, <1>4, <2>1, <3>2, <3>3
    <2>5. QED BY <1>5, <2>1, <2>2, <2>3, <2>4 DEF ServerStep
  <1>6. CASE CallAdapter(x)
    <2>1. stage[x] = "adapter" /\ effects[x] = 0 /\ UNCHANGED <<req, gone>>
      BY <1>1, <1>6 DEF CallAdapter, CallOf
    <2>2. PICK a \in Answers :
            /\ Reply(x, a)
            /\ \/ /\ a \in {"ok", "wrapped"} \cup Troubles \cup LateRefusals(req[x].verb)
                  /\ a = "wrapped" => req[x].verb \notin Writes
                  /\ effects' = [effects EXCEPT ![x] = IF req[x].verb \in Writes THEN 1 ELSE 0]
               \/ a \in Refusals \cup Troubles /\ UNCHANGED effects
      <3>1. CASE \E a \in {Success(req[x].verb)} \cup Troubles \cup LateRefusals(req[x].verb) :
                    /\ Reply(x, a)
                    /\ effects' = [effects EXCEPT ![x] =
                                     IF req[x].verb \in Writes THEN effects[x] + 1 ELSE effects[x]]
        <4>1. PICK a \in {Success(req[x].verb)} \cup Troubles \cup LateRefusals(req[x].verb) :
                /\ Reply(x, a)
                /\ effects' = [effects EXCEPT ![x] =
                                 IF req[x].verb \in Writes THEN effects[x] + 1 ELSE effects[x]]
          BY <3>1
        <4>2. /\ a \in {"ok", "wrapped"} \cup Troubles \cup LateRefusals(req[x].verb)
              /\ a \in Answers
              /\ a = "wrapped" => req[x].verb \notin Writes
          BY <4>1 DEF Success, Answers, Troubles, Writes, LateRefusals, Refusals
        <4>3. (IF req[x].verb \in Writes THEN effects[x] + 1 ELSE effects[x]) =
                IF req[x].verb \in Writes THEN 1 ELSE 0
          BY <2>1
        <4>4. QED BY <4>1, <4>2, <4>3
      <3>2. CASE \E a \in Refusals \cup Troubles : Reply(x, a) /\ UNCHANGED effects
        BY <3>2 DEF Answers
      <3>3. QED BY <1>6, <3>1, <3>2 DEF CallAdapter, Refusals
    <2>3. /\ stage'[x] = "answered" /\ answer'[x] = a
          /\ \A y \in Slots \ {x} :
               stage'[y] = stage[y] /\ answer'[y] = answer[y] /\ effects'[y] = effects[y]
          /\ effects' \in [Slots -> 0..1]
          /\ effects'[x] = 1 => /\ a \in Troubles \cup {"ok"} \cup LateRefusals(req[x].verb)
                                /\ req[x].verb \in Writes
          /\ a = "ok" /\ req[x].verb \in Writes => effects'[x] = 1
          /\ effects'[x] \in 0..1
      BY <2>1, <2>2, ReplyWrites, ServerTypes DEF Refusals, Troubles
    <2>4. IntakeInv'
      BY <2>1, <2>2, ReplyIntake
    <2>5. ServerTypeOK'
      BY <1>6, <2>1, <2>2, <2>3, ReplyWrites, ServerTypes DEF CallAdapter
    <2>6. CallOf(x)'
      <3>1. a # "none"
        BY <2>2 DEF Refusals, Troubles, LateRefusals
      <3>2. at[x] # "idle"
        BY <2>1 DEF CallOf
      <3>3. outcome[x] \in Refusals \cup {"closed"} => effects'[x] = 0
        BY <2>1, <2>3 DEF CallOf
      <3>4. ~ (outcome[x] = "ok" /\ verb[x] \in Writes)
        BY <2>1 DEF CallOf
      <3>5. QED BY <2>1, <2>3, <3>1, <3>2, <3>3, <3>4 DEF CallOf
    <2>7. QED BY <2>1, <2>3, <2>4, <2>5, <2>6
  <1>7. QED BY <1>5, <1>6
\* What one call is at and how it ends.
LEMMA AtWrites ==
    ASSUME AdapterTypes, NEW c \in Slots,
           NEW where \in Places,
           NEW how \in Outcomes,
           at' = [at EXCEPT ![c] = where],
           outcome' = [outcome EXCEPT ![c] = how] \/ UNCHANGED outcome
    PROVE  /\ at'[c] = where
           /\ outcome'[c] \in {outcome[c], how}
           /\ outcome' = [outcome EXCEPT ![c] = how] => outcome'[c] = how
           /\ \A d \in Slots \ {c} : at'[d] = at[d] /\ outcome'[d] = outcome[d]
           /\ at' \in [Slots -> Places] /\ outcome' \in [Slots -> Outcomes]
  BY DEF AdapterTypes

\* The call ends here, with what it knows.
LEMMA EndsCall ==
    ASSUME ServerTypeOK, AdapterTypes, CallInv, NEW c \in Slots, NEW how \in Outcomes,
           how # "none", Ends(c, how), UNCHANGED <<verb, req, effects>>,
           how = "ok" /\ verb[c] \in Writes => effects[c] = 1,
           how = "closed" => effects[c] = 0,
           how \in Refusals => effects[c] = 0 \/ verb[c] \in Partial,
           how \in Refusals \cup {"closed"} =>
             stage'[c] \in {"none", "answered", "lost"} \/ req[c].verb \notin Writes,
           stage'[c] = "answered" => stage[c] = "answered", UNCHANGED answer,
           effects[c] = 1 => stage'[c] = "answered",
           \A d \in Slots \ {c} : stage'[d] = stage[d]
    PROVE  /\ CallInv'
           /\ at' \in [Slots -> Places] /\ outcome' \in [Slots -> Outcomes]
           /\ \A d \in Slots : at'[d] = "probe" => at[d] = "probe"
  <1>1. /\ at'[c] = "ended" /\ outcome'[c] = how
        /\ \A d \in Slots \ {c} : at'[d] = at[d] /\ outcome'[d] = outcome[d]
        /\ at' \in [Slots -> Places] /\ outcome' \in [Slots -> Outcomes]
    BY AtWrites DEF Ends, Places
  <1>2. CallOf(c)'
    BY <1>1 DEF CallInv, CallOf
  <1>3. \A d \in Slots \ {c} : CallOf(d)'
    BY <1>1, CallStays DEF CallInv
  <1>4. \A d \in Slots : at'[d] = "probe" => at[d] = "probe"
    BY <1>1
  <1>5. QED BY <1>1, <1>2, <1>3, <1>4 DEF CallInv

\* The call, or another client, sends a request that has no effect behind it.
LEMMA SendsCall ==
    ASSUME ServerTypeOK, AdapterTypes, IntakeInv, CallInv, NEW c \in Slots, NEW r \in Request,
           Sent(c, r), effects[c] # 1, outcome[c] = "none", UNCHANGED verb,
           NEW where \in {"other", "probe", "request", "redirected"}, Goto(c, where),
           where = "probe" => r = Probe,
           where \in {"request", "redirected"} => r.verb = verb[c]
    PROVE  /\ ServerTypeOK' /\ IntakeInv' /\ CallInv'
           /\ at' \in [Slots -> Places] /\ outcome' \in [Slots -> Outcomes]
           /\ \A d \in Slots \ {c} : at'[d] = at[d]
           /\ at'[c] = where
  <1>1. "none" \in Outcomes
    BY DEF Outcomes
  <1>2. /\ at'[c] = where /\ outcome'[c] = "none"
        /\ \A d \in Slots \ {c} : at'[d] = at[d] /\ outcome'[d] = outcome[d]
        /\ at' \in [Slots -> Places] /\ outcome' \in [Slots -> Outcomes]
    BY <1>1, AtWrites DEF Goto, AdapterTypes, Places
  <1>3. CallOf(c)'
    BY <1>2, SentWrites DEF CallOf, Refusals
  <1>4. \A d \in Slots \ {c} : CallOf(d)'
    BY <1>2, SentWrites, CallStays DEF CallInv
  <1>5. ServerTypeOK' /\ IntakeInv'
    BY SentWrites, SentIntake
  <1>6. QED BY <1>2, <1>3, <1>4, <1>5 DEF CallInv

-----------------------------------------------------------------------------
(* The clients *)

LEMMA FreshIs ==
    /\ clients[1] = "unused" => Fresh = 1
    /\ clients[1] # "unused" /\ clients[2] = "unused" => Fresh = 2
  <1> DEFINE First(i) == clients[i] = "unused" /\ \A j \in ClientIds : clients[j] = "unused" => i <= j
  <1>1. ClientIds = {1, 2}
    BY DEF ClientIds
  <1>2. CASE clients[1] = "unused"
    <2>1. First(1)
      BY <1>1, <1>2
    <2>2. \A i \in ClientIds : First(i) => i = 1
      BY <1>1, <1>2
    <2>3. QED BY <1>1, <1>2, <2>1, <2>2 DEF Fresh
  <1>3. CASE clients[1] # "unused" /\ clients[2] = "unused"
    <2>1. First(2)
      BY <1>1, <1>3
    <2>2. \A i \in ClientIds : First(i) => i = 2
      BY <1>1, <1>3
    <2>3. QED BY <1>1, <1>3, <2>1, <2>2 DEF Fresh
  <1>4. QED BY <1>2, <1>3

ClientTypes ==
    /\ clients \in [ClientIds -> {"unused", "open", "closed"}]
    /\ client \in ClientIds \cup {None}
    /\ own \in [Slots -> ClientIds \cup {None}]

\* Nothing happens to the clients, and no probe begins.
LEMMA ClientStays ==
    ASSUME ClientInv, UNCHANGED <<kind, closed, probing, clients, client>>,
           \A d \in Slots : at'[d] = "probe" => at[d] = "probe"
    PROVE  ClientInv'
  BY DEF ClientInv

\* After close() only a call that waited for its probe takes a client.
LEMMA ClientTaken ==
    ASSUME AdapterTypes, ClientInv, NEW c \in Slots, TakeClient(c),
           UNCHANGED <<kind, closed, probing>>,
           closed /\ kind = "async" => at[c] = "probe",
           \A d \in Slots \ {c} : at'[d] = at[d],
           closed => at'[c] # "probe"
    PROVE  ClientInv' /\ ClientTypes'
  <1>1. ClientIds = {1, 2} /\ 1 # None /\ 2 # None
    BY RemoteAssumption DEF ClientIds
  <1>2. kind \in {"sync", "async"} /\ clients \in [{1, 2} -> {"unused", "open", "closed"}]
        /\ own \in [Slots -> {1, 2, None}] /\ client \in {1, 2, None} /\ closed \in BOOLEAN
    BY <1>1 DEF AdapterTypes
  <1>3. CASE kind = "sync" \/ client # None
    <2>1. UNCHANGED <<clients, client>> /\ own' \in [Slots -> {1, 2, None}]
      BY <1>2, <1>3 DEF TakeClient, EnsureClient
    <2>2. clients[1] # "unused"
      BY <1>1, <1>2, <1>3 DEF ClientInv
    <2>3. ClientInv'
      BY <2>1, <2>2 DEF ClientInv
    <2>4. QED BY <1>1, <1>2, <2>1, <2>3 DEF ClientTypes
  <1>4. CASE kind = "async" /\ client = None
    <2>1. /\ clients' = [clients EXCEPT ![Fresh] = "open"] /\ client' = Fresh
          /\ own' = [own EXCEPT ![c] = Fresh]
      BY <1>4 DEF TakeClient, EnsureClient
    <2>2. CASE clients[1] = "unused"
      <3>1. Fresh = 1 /\ clients[2] = "unused" /\ ~ closed
        BY <1>1, <1>2, <1>4, <2>2, FreshIs DEF ClientInv
      <3>2. clients'[1] = "open" /\ clients'[2] = "unused" /\ client' = 1
        BY <1>2, <2>1, <3>1
      <3>3. ClientInv'
        BY <1>4, <3>1, <3>2 DEF ClientInv
      <3>4. QED BY <1>1, <1>2, <2>1, <3>1, <3>3 DEF ClientTypes
    <2>3. CASE clients[1] # "unused"
      <3>1. /\ Fresh = 2 /\ clients[1] = "closed" /\ clients[2] = "unused"
            /\ closed /\ probing
        BY <1>1, <1>2, <1>4, <2>3, FreshIs DEF ClientInv
      <3>2. clients'[1] = "closed" /\ clients'[2] = "open" /\ client' = 2
        BY <1>2, <2>1, <3>1
      <3>3. ClientInv'
        BY <1>4, <3>1, <3>2 DEF ClientInv
      <3>4. QED BY <1>1, <1>2, <2>1, <3>1, <3>3 DEF ClientTypes
    <2>4. QED BY <2>2, <2>3
  <1>5. QED BY <1>2, <1>3, <1>4
-----------------------------------------------------------------------------
(* The steps *)

LEMMA RequestTypes ==
    /\ <<0>> \in Body
    /\ \A v \in Verbs, body \in Body :
         RequestOf(v, body) \in Request /\ RequestOf(v, body).verb = v
    /\ \A r \in Request : \A b \in Bare(r) : b \in Request /\ b.verb = r.verb
  <1>1. <<0>> \in Body
    BY DEF Body
  <1>2. ASSUME NEW v \in Verbs, NEW body \in Body
        PROVE  RequestOf(v, body) \in Request /\ RequestOf(v, body).verb = v
    BY DEF RequestOf, Request
  <1>3. ASSUME NEW r \in Request, NEW b \in Bare(r)
        PROVE  b \in Request /\ b.verb = r.verb
    <2>1. PICK args \in {"valid", "incomplete", "malformed"} :
              b = [r EXCEPT !.body = <<0>>, !.args = args]
      BY DEF Bare, Request
    <2>2. QED BY <1>1, <2>1 DEF Request
  <1>4. QED BY <1>1, <1>2, <1>3

LEMMA InvTypes ==
    ASSUME IInv
    PROVE  /\ ServerTypeOK /\ AdapterTypes /\ IntakeInv /\ CallInv /\ ClientInv
           /\ \A c \in Slots : /\ effects[c] \in 0..1 /\ verb[c] \in Verbs
                               /\ stage[c] \in Stages /\ answer[c] \in Answers
                               /\ req[c] \in Request
  BY TypesApart, ServerTypes DEF IInv, AdapterTypes

\* A call ends before it has sent anything, or after its probe.
LEMMA RefusedStep ==
    ASSUME IInv, NEW c \in Slots, NEW how \in {"unsupported_capability", "raw", "closed"},
           Refused(c, how), effects[c] = 0, stage[c] \in {"none", "answered"},
           known' \in BOOLEAN, UNCHANGED <<kind, closed, verb, probing>>
    PROVE  IInv'
  <1>1. ServerTypeOK /\ AdapterTypes /\ IntakeInv /\ CallInv /\ ClientInv
    BY InvTypes
  <1>2. how \in Outcomes /\ how # "none" /\ how # "ok"
    BY DEF Outcomes, Refusals
  <1>3. /\ CallInv' /\ at' \in [Slots -> Places] /\ outcome' \in [Slots -> Outcomes]
        /\ \A d \in Slots : at'[d] = "probe" => at[d] = "probe"
    BY <1>1, <1>2, EndsCall DEF Refused, serverVars
  <1>4. ServerTypeOK' /\ IntakeInv'
    BY <1>1 DEF Refused, serverVars, ServerTypeOK, IntakeInv, IntakeOf
  <1>5. ClientInv'
    BY <1>1, <1>3, ClientStays DEF Refused
  <1>6. AdapterTypes'
    BY <1>1, <1>3 DEF Refused, AdapterTypes
  <1>7. QED BY <1>3, <1>4, <1>5, <1>6, TypesApart DEF IInv

\* The first request of a call, or the one after its probe.
LEMMA SendVerbStep ==
    ASSUME IInv, NEW c \in Slots, SendVerb(c), at[c] \in {"idle", "probe"},
           stage[c] \in {"none", "answered"}, effects[c] = 0,
           closed /\ kind = "async" => at[c] = "probe",
           known' \in BOOLEAN, UNCHANGED <<kind, closed, verb, probing>>
    PROVE  IInv'
  <1>1. /\ ServerTypeOK /\ AdapterTypes /\ IntakeInv /\ CallInv /\ ClientInv
        /\ outcome[c] = "none" /\ verb[c] \in Verbs
    BY InvTypes DEF CallInv, CallOf
  <1>2. ASSUME NEW how \in {"unsupported_capability", "raw"}, Refused(c, how)
        PROVE  IInv'
    BY <1>1, <1>2, RefusedStep
  <1>3. CASE /\ \E b \in (IF verb[c] \in JSONVerbs THEN Bodies ELSE {<<0>>}) :
                   Sent(c, RequestOf(verb[c], b))
             /\ TakeClient(c) /\ Goto(c, "request")
    <2>1. PICK b \in Body : Sent(c, RequestOf(verb[c], b))
      BY <1>3, RequestTypes, RemoteAssumption
    <2>2. RequestOf(verb[c], b) \in Request /\ RequestOf(verb[c], b).verb = verb[c]
      BY <1>1, RequestTypes
    <2>3. /\ ServerTypeOK' /\ IntakeInv' /\ CallInv'
          /\ at' \in [Slots -> Places] /\ outcome' \in [Slots -> Outcomes]
          /\ \A d \in Slots \ {c} : at'[d] = at[d]
          /\ at'[c] = "request"
      BY <1>1, <1>3, <2>1, <2>2, SendsCall
    <2>4. ClientInv' /\ ClientTypes'
      BY <1>1, <1>3, <2>3, ClientTaken
    <2>5. AdapterTypes'
      BY <1>1, <2>3, <2>4 DEF AdapterTypes, ClientTypes
    <2>6. QED BY <2>3, <2>4, <2>5, TypesApart DEF IInv
  <1>4. QED BY <1>2, <1>3 DEF SendVerb

LEMMA BeginStep ==
    ASSUME IInv, NEW c \in Slots, Begin(c)
    PROVE  IInv'
  <1>1. /\ ServerTypeOK /\ AdapterTypes /\ IntakeInv /\ CallInv /\ ClientInv
        /\ outcome[c] = "none" /\ verb[c] \in Verbs /\ at[c] = "idle" /\ stage[c] = "none"
        /\ effects[c] = 0 /\ closed \in BOOLEAN /\ known \in BOOLEAN
        /\ UNCHANGED <<kind, closed, known, verb, probing>>
    BY InvTypes DEF Begin, CallInv, CallOf, AdapterTypes
  <1>2. ASSUME NEW how \in {"closed", "raw"}, Refused(c, how)
        PROVE  IInv'
    BY <1>1, <1>2, RefusedStep
  <1>3. CASE ~ closed /\ Sent(c, Probe) /\ TakeClient(c) /\ Goto(c, "probe")
    <2>1. /\ ServerTypeOK' /\ IntakeInv' /\ CallInv'
          /\ at' \in [Slots -> Places] /\ outcome' \in [Slots -> Outcomes]
          /\ \A d \in Slots \ {c} : at'[d] = at[d]
          /\ at'[c] = "probe"
      BY <1>1, <1>3, ProbeType, SendsCall
    <2>2. ClientInv' /\ ClientTypes'
      BY <1>1, <1>3, <2>1, ClientTaken
    <2>3. AdapterTypes'
      BY <1>1, <2>1, <2>2 DEF AdapterTypes, ClientTypes
    <2>4. QED BY <2>1, <2>2, <2>3, TypesApart DEF IInv
  <1>4. CASE (kind = "sync" \/ ~ closed) /\ SendVerb(c)
    BY <1>1, <1>4, SendVerbStep
  <1>5. QED BY <1>2, <1>3, <1>4 DEF Begin

LEMMA ProbeReturnsStep ==
    ASSUME IInv, NEW c \in Slots, ProbeReturns(c)
    PROVE  IInv'
  <1>1. /\ ServerTypeOK /\ AdapterTypes /\ IntakeInv /\ CallInv /\ ClientInv
        /\ at[c] = "probe" /\ stage[c] = "answered" /\ req[c] = Probe
        /\ effects[c] \in 0..1 /\ known \in BOOLEAN
        /\ UNCHANGED <<kind, closed, verb, probing>>
    BY InvTypes DEF ProbeReturns, CallInv, CallOf, AdapterTypes
  <1>2. effects[c] = 0 /\ req[c].verb \notin Writes
    BY <1>1 DEF CallInv, CallOf, Probe, NoRequest, Writes
  <1>3. CASE known' = TRUE /\ SendVerb(c)
    BY <1>1, <1>2, <1>3, SendVerbStep
  <1>4. CASE Refused(c, "unsupported_capability") /\ UNCHANGED known
    BY <1>1, <1>2, <1>4, RefusedStep
  <1>5. QED BY <1>3, <1>4 DEF ProbeReturns
LEMMA ReturnsStep ==
    ASSUME IInv, NEW c \in Slots, Returns(c) \/ RedirectLoop(c)
    PROVE  IInv'
  <1>1. /\ ServerTypeOK /\ AdapterTypes /\ IntakeInv /\ CallInv /\ ClientInv
        /\ at[c] \in {"request", "redirected"} /\ stage[c] = "answered" /\ req[c].verb = verb[c]
        /\ effects[c] \in 0..1 /\ answer[c] \in Answers /\ answer[c] # "none"
        /\ UNCHANGED <<serverVars, kind, closed, clients, client, known, verb, own, probing>>
    BY InvTypes DEF Returns, RedirectLoop, CallInv, CallOf
  <1>2. PICK how \in Outcomes :
          /\ Ends(c, how) /\ how # "none"
          /\ how = "ok" => answer[c] = "ok"
          /\ how \in Refusals => answer[c] \in Refusals \cup {"no route"}
          /\ how # "closed"
    <2>1. CASE Returns(c)
      <3>1. answer[c] \in Refusals \cup Troubles \cup {"ok", "wrapped", "no route"}
        BY <1>1, <2>1 DEF Returns, Answers
      <3>2. OutcomeOf(answer[c]) \in Outcomes \ {"none"}
        BY <3>1 DEF OutcomeOf, Outcomes, Refusals, Troubles
      <3>3. /\ OutcomeOf(answer[c]) = "ok" => answer[c] = "ok"
            /\ OutcomeOf(answer[c]) \in Refusals => answer[c] \in Refusals \cup {"no route"}
            /\ OutcomeOf(answer[c]) # "closed"
        BY <3>1 DEF OutcomeOf, Refusals, Troubles
      <3>4. QED BY <2>1, <3>2, <3>3 DEF Returns
    <2>2. CASE RedirectLoop(c)
      BY <2>2 DEF RedirectLoop, Outcomes, Refusals
    <2>3. QED BY <2>1, <2>2
  <1>3. /\ how = "ok" /\ verb[c] \in Writes => effects[c] = 1
        /\ how \in Refusals => effects[c] = 0 \/ verb[c] \in Partial
    <2>1. /\ answer[c] = "ok" /\ verb[c] \in Writes => effects[c] = 1
          /\ effects[c] = 1 => \/ answer[c] \in Troubles \cup {"ok"}
                               \/ answer[c] \in Refusals /\ verb[c] \in Partial
      <3>1. LateRefusals(verb[c]) = IF verb[c] \in Partial THEN Refusals ELSE {}
        BY DEF LateRefusals
      <3>2. effects[c] = 1 => answer[c] \in Troubles \cup {"ok"} \cup LateRefusals(verb[c])
        BY <1>1 DEF CallInv, CallOf
      <3>3. answer[c] = "ok" /\ verb[c] \in Writes => effects[c] = 1
        BY <1>1 DEF CallInv, CallOf
      <3>4. QED BY <3>1, <3>2, <3>3
    <2>2. \A a \in Refusals \cup {"no route"} : a \notin Troubles \cup {"ok"}
      BY DEF Refusals, Troubles
    <2>3. how = "ok" /\ verb[c] \in Writes => effects[c] = 1
      BY <1>2, <2>1
    <2>4. how \in Refusals => effects[c] # 1 \/ verb[c] \in Partial
      BY <1>2, <2>1, <2>2
    <2>5. QED BY <1>1, <2>3, <2>4
  <1>4. /\ CallInv' /\ at' \in [Slots -> Places] /\ outcome' \in [Slots -> Outcomes]
        /\ \A d \in Slots : at'[d] = "probe" => at[d] = "probe"
    BY <1>1, <1>2, <1>3, EndsCall DEF serverVars
  <1>5. ServerTypeOK' /\ IntakeInv'
    BY <1>1 DEF serverVars, ServerTypeOK, IntakeInv, IntakeOf
  <1>6. ClientInv' /\ AdapterTypes'
    BY <1>1, <1>4, ClientStays DEF AdapterTypes
  <1>7. QED BY <1>4, <1>5, <1>6, TypesApart DEF IInv

LEMMA RedirectedStep ==
    ASSUME IInv, NEW c \in Slots, Redirected(c)
    PROVE  IInv'
  <1>1. /\ ServerTypeOK /\ AdapterTypes /\ IntakeInv /\ CallInv /\ ClientInv
        /\ at[c] = "request" /\ stage[c] = "answered" /\ answer[c] = "redirect"
        /\ req[c].verb = verb[c] /\ req[c] \in Request /\ outcome[c] = "none"
        /\ effects[c] \in 0..1
        /\ UNCHANGED <<kind, closed, clients, client, known, verb, own, probing>>
    BY InvTypes DEF Redirected, CallInv, CallOf
  <1>2. effects[c] = 0
    BY <1>1 DEF CallInv, CallOf, Troubles, LateRefusals, Refusals
  <1>3. CASE (\E r \in Bare(req[c]) : Sent(c, r)) /\ Goto(c, "redirected")
    <2>1. PICK r \in Request : Sent(c, r) /\ r.verb = verb[c]
      BY <1>1, <1>3, RequestTypes
    <2>2. /\ ServerTypeOK' /\ IntakeInv' /\ CallInv'
          /\ at' \in [Slots -> Places] /\ outcome' \in [Slots -> Outcomes]
          /\ \A d \in Slots \ {c} : at'[d] = at[d]
          /\ at'[c] = "redirected"
      BY <1>1, <1>2, <1>3, <2>1, SendsCall
    <2>3. \A d \in Slots : at'[d] = "probe" => at[d] = "probe"
      BY <2>2
    <2>4. ClientInv' /\ AdapterTypes'
      BY <1>1, <2>2, <2>3, ClientStays DEF AdapterTypes
    <2>5. QED BY <2>2, <2>4, TypesApart DEF IInv
  <1>4. CASE Ends(c, "raw") /\ UNCHANGED serverVars
    <2>1. "raw" \in Outcomes /\ "raw" \notin Refusals \cup {"closed", "ok"}
      BY DEF Outcomes, Refusals
    <2>2. /\ CallInv' /\ at' \in [Slots -> Places] /\ outcome' \in [Slots -> Outcomes]
          /\ \A d \in Slots : at'[d] = "probe" => at[d] = "probe"
      BY <1>1, <1>4, <2>1, EndsCall DEF serverVars
    <2>3. ServerTypeOK' /\ IntakeInv'
      BY <1>1, <1>4 DEF serverVars, ServerTypeOK, IntakeInv, IntakeOf
    <2>4. ClientInv' /\ AdapterTypes'
      BY <1>1, <2>2, ClientStays DEF AdapterTypes
    <2>5. QED BY <2>2, <2>3, <2>4, TypesApart DEF IInv
  <1>5. QED BY <1>3, <1>4 DEF Redirected

\* The call gives up; the request may be lost, or go on without it.
LEMMA RaisesStep ==
    ASSUME IInv, NEW c \in Slots, RequestRaises(c)
    PROVE  IInv'
  <1>1. /\ ServerTypeOK /\ AdapterTypes /\ IntakeInv /\ CallInv /\ ClientInv
        /\ at[c] \in {"probe", "request", "redirected"}
        /\ effects[c] \in 0..1
        /\ UNCHANGED <<req, answer, reached, effects>>
        /\ UNCHANGED <<kind, closed, clients, client, known, verb, own, probing>>
        /\ gone' = gone \cup {c}
    BY InvTypes DEF RequestRaises
  <1>2. PICK how \in {"raw", "provider_error", "unsupported_capability"} :
          Ends(c, how) /\ (how = "unsupported_capability" => at[c] = "probe")
    BY DEF RequestRaises, Raised
  <1>3. \/ UNCHANGED <<stage, intake>>
        \/ /\ stage[c] = "arrived"
           /\ stage' = [stage EXCEPT ![c] = "lost"] /\ intake' = [intake EXCEPT ![c] = Nothing]
    BY DEF RequestRaises
  <1>4. /\ how \in Outcomes /\ how # "none" /\ how \notin {"ok", "closed"}
        /\ how \in Refusals => how = "unsupported_capability"
    BY DEF Outcomes, Refusals
  <1>5. at[c] = "probe" => effects[c] = 0 /\ req[c].verb \notin Writes
    BY <1>1 DEF CallInv, CallOf, Probe, NoRequest, Writes
  <1>6. /\ stage'[c] \in {stage[c], "lost"} /\ (stage'[c] = "lost" => stage[c] \in {"arrived", "lost"})
        /\ stage' \in [Slots -> Stages] /\ intake' \in [Slots -> Intake]
        /\ \A d \in Slots \ {c} : stage'[d] = stage[d] /\ intake'[d] = intake[d]
        /\ stage[c] = "arrived" => \/ stage'[c] = "arrived" /\ intake'[c] = intake[c]
                                   \/ stage'[c] = "lost" /\ intake'[c] = Nothing
        /\ stage[c] # "arrived" => stage'[c] = stage[c] /\ intake'[c] = intake[c]
    BY <1>1, <1>3, ServerTypes, ComingTypes DEF Stages
  <1>7. effects[c] = 1 => stage[c] = "answered"
    BY <1>1 DEF CallInv, CallOf
  <1>8. /\ CallInv' /\ at' \in [Slots -> Places] /\ outcome' \in [Slots -> Outcomes]
        /\ \A d \in Slots : at'[d] = "probe" => at[d] = "probe"
    BY <1>1, <1>2, <1>4, <1>5, <1>6, <1>7, EndsCall
  <1>9. ServerTypeOK'
    BY <1>1, <1>6, ServerTypes
  <1>10. IntakeInv'
    <2>1. IntakeOf(c)'
      <3>1. CASE stage'[c] = stage[c] /\ intake'[c] = intake[c]
        BY <1>1, <3>1, IntakeStays DEF IntakeInv
      <3>2. CASE stage'[c] = "lost" /\ intake'[c] = Nothing
        BY <3>2 DEF IntakeOf
      <3>3. QED BY <1>6, <3>1, <3>2
    <2>2. \A d \in Slots \ {c} : IntakeOf(d)'
      BY <1>1, <1>6, IntakeStays DEF IntakeInv
    <2>3. QED BY <2>1, <2>2 DEF IntakeInv
  <1>11. ClientInv' /\ AdapterTypes'
    BY <1>1, <1>8, ClientStays DEF AdapterTypes
  <1>12. QED BY <1>8, <1>9, <1>10, <1>11, TypesApart DEF IInv

LEMMA CloseStep ==
    ASSUME IInv, Close
    PROVE  IInv'
  <1>1. /\ ServerTypeOK /\ AdapterTypes /\ IntakeInv /\ CallInv /\ ClientInv
        /\ ~ closed /\ closed' = TRUE
        /\ clients' = ClosedClients /\ client' = IF kind = "async" THEN None ELSE client
        /\ probing' = \E c \in Slots : at[c] = "probe"
        /\ UNCHANGED <<serverVars, kind, known, verb, at, own, outcome>>
    BY InvTypes DEF Close
  <1>2. ClientIds = {1, 2} /\ 1 # None /\ 2 # None
    BY RemoteAssumption DEF ClientIds
  <1>3. kind \in {"sync", "async"} /\ clients \in [{1, 2} -> {"unused", "open", "closed"}]
    BY <1>1, <1>2 DEF AdapterTypes
  <1>4. ServerTypeOK' /\ IntakeInv' /\ CallInv'
    BY <1>1 DEF serverVars, ServerTypeOK, IntakeInv, IntakeOf, CallInv, CallOf
  <1>5. CASE client = None
    <2>1. kind = "async" /\ clients' = clients /\ client' = None
      BY <1>1, <1>2, <1>3, <1>5 DEF ClientInv, ClosedClients
    <2>2. ClientInv'
      BY <1>1, <1>2, <1>3, <1>5, <2>1 DEF ClientInv
    <2>3. AdapterTypes'
      BY <1>1, <2>1 DEF AdapterTypes
    <2>4. QED BY <1>4, <2>2, <2>3, TypesApart DEF IInv
  <1>6. CASE client # None
    <2>1. client = 1 /\ clients[2] = "unused"
      BY <1>1, <1>3, <1>6 DEF ClientInv
    <2>2. clients' = [clients EXCEPT ![1] = "closed"] /\ clients'[1] = "closed"
          /\ clients'[2] = "unused"
      BY <1>1, <1>3, <1>6, <2>1 DEF ClosedClients
    <2>3. ClientInv'
      BY <1>1, <1>2, <1>3, <2>1, <2>2 DEF ClientInv
    <2>4. AdapterTypes'
      BY <1>1, <1>2, <2>2 DEF AdapterTypes
    <2>5. QED BY <1>4, <2>3, <2>4, TypesApart DEF IInv
  <1>7. QED BY <1>5, <1>6

\* The server, the network and other clients of the server.
LEMMA NetworkStep ==
    ASSUME IInv, NEW c \in Slots,
           \/ ProxyRedirects(c) \/ OtherSends(c) \/ OtherLeaves(c)
           \/ ServerStep(c) /\ UNCHANGED adapterVars
    PROVE  IInv'
  <1>1. /\ ServerTypeOK /\ AdapterTypes /\ IntakeInv /\ CallInv /\ ClientInv
        /\ effects[c] \in 0..1 /\ CallOf(c)
    BY InvTypes DEF CallInv
  <1>2. ASSUME UNCHANGED adapterVars
        PROVE  ClientInv' /\ AdapterTypes'
    BY <1>1, <1>2, ClientStays DEF adapterVars, AdapterTypes
  <1>3. CASE ServerStep(c) /\ UNCHANGED adapterVars
    <2>1. UNCHANGED <<at, outcome, verb>>
      BY <1>3 DEF adapterVars
    <2>2. ServerTypeOK' /\ IntakeInv' /\ CallOf(c)'
      BY <1>1, <1>3, <2>1, ServerCall
    <2>3. \A d \in Slots \ {c} : CallOf(d)'
      BY <1>1, <1>3, <2>1, ServerCall, CallStays DEF CallInv
    <2>4. QED BY <1>2, <1>3, <2>2, <2>3, TypesApart DEF IInv, CallInv
  <1>4. CASE ProxyRedirects(c)
    <2>1. /\ stage[c] = "arrived" /\ Reply(c, "redirect") /\ "redirect" \in Answers
          /\ UNCHANGED <<req, gone, reached, effects>> /\ UNCHANGED adapterVars
      BY <1>4 DEF ProxyRedirects, Answers
    <2>2. ServerTypeOK' /\ IntakeInv'
      BY <1>1, <2>1, ReplyTypes
    <2>3. CallOf(c)'
      BY <1>1, <2>1, ReplyWrites DEF CallOf, adapterVars
    <2>4. \A d \in Slots \ {c} : CallOf(d)'
      BY <1>1, <2>1, ReplyWrites, CallStays DEF CallInv, adapterVars
    <2>5. QED BY <1>2, <2>1, <2>2, <2>3, <2>4, TypesApart DEF IInv, CallInv
  <1>5. CASE OtherSends(c)
    <2>1. PICK r \in Request : Sent(c, r)
      BY <1>5, RemoteAssumption DEF OtherSends
    <2>2. /\ at[c] = "idle" /\ Goto(c, "other") /\ outcome[c] = "none" /\ effects[c] # 1
          /\ UNCHANGED <<kind, closed, clients, client, known, verb, own, probing>>
      BY <1>1, <1>5 DEF OtherSends, CallOf
    <2>3. /\ ServerTypeOK' /\ IntakeInv' /\ CallInv'
          /\ at' \in [Slots -> Places] /\ outcome' \in [Slots -> Outcomes]
          /\ \A d \in Slots \ {c} : at'[d] = at[d]
          /\ at'[c] = "other"
      BY <1>1, <2>1, <2>2, SendsCall
    <2>4. \A d \in Slots : at'[d] = "probe" => at[d] = "probe"
      BY <2>3
    <2>5. ClientInv' /\ AdapterTypes'
      BY <1>1, <2>2, <2>3, <2>4, ClientStays DEF AdapterTypes
    <2>6. QED BY <2>3, <2>5, TypesApart DEF IInv
  <1>6. CASE OtherLeaves(c)
    <2>1. gone' = gone \cup {c} /\ UNCHANGED <<req, stage, intake, answer, reached, effects>>
          /\ UNCHANGED adapterVars
      BY <1>6 DEF OtherLeaves
    <2>2. ServerTypeOK' /\ IntakeInv' /\ CallInv'
      BY <1>1, <2>1 DEF ServerTypeOK, IntakeInv, IntakeOf, CallInv, CallOf, adapterVars
    <2>3. QED BY <1>2, <2>1, <2>2, TypesApart DEF IInv
  <1>7. QED BY <1>3, <1>4, <1>5, <1>6
-----------------------------------------------------------------------------
(* The invariant *)

LEMMA InitInv == Init => IInv
  <1> SUFFICES ASSUME Init PROVE IInv
    OBVIOUS
  <1>1. ServerTypeOK
    <2>1. /\ "none" \in Stages /\ "none" \in Answers /\ 0 \in 0..1
          /\ NoRequest \in Request /\ Nothing \in Intake
      BY ComingTypes, ProbeType DEF Stages, Answers, Probe
    <2>2. QED BY <2>1, ServerTypes DEF Init, ServerInit
  <1>2. /\ \A c \in Slots : /\ at[c] = "idle" /\ stage[c] = "none" /\ effects[c] = 0
                           /\ outcome[c] = "none" /\ intake[c] = Nothing
        /\ "none" \notin Refusals \cup {"closed"}
    BY DEF Init, ServerInit, Refusals
  <1>3. AdapterTypes
    <2>1. /\ clients \in [ClientIds -> {"unused", "open", "closed"}]
          /\ client \in ClientIds \cup {None}
      BY DEF Init, ClientIds
    <2>2. verb \in [Slots -> Verbs]
      BY RemoteAssumption DEF Init
    <2>3. /\ at \in [Slots -> Places] /\ outcome \in [Slots -> Outcomes]
          /\ own \in [Slots -> ClientIds \cup {None}]
      BY DEF Init, Places, Outcomes
    <2>4. kind \in {"sync", "async"} /\ closed \in BOOLEAN /\ known \in BOOLEAN /\ probing \in BOOLEAN
      BY DEF Init
    <2>5. QED BY <2>1, <2>2, <2>3, <2>4 DEF AdapterTypes
  <1>4. IntakeInv /\ CallInv
    BY <1>2 DEF IntakeInv, IntakeOf, CallInv, CallOf
  <1>5. ClientInv
    BY RemoteAssumption DEF Init, ClientInv, ClientIds
  <1>6. QED BY <1>1, <1>3, <1>4, <1>5, TypesApart DEF IInv

LEMMA NextInv == IInv /\ [Next]_vars => IInv'
  <1>1. ASSUME IInv, Next PROVE IInv'
    BY <1>1, CloseStep, BeginStep, ProbeReturnsStep, ReturnsStep, RedirectedStep, RaisesStep,
       NetworkStep DEF Next
  <1>2. ASSUME IInv, UNCHANGED vars PROVE IInv'
    <2>1. UNCHANGED <<serverVars, adapterVars>>
      BY <1>2 DEF vars
    <2>2. TypeOK'
      BY <1>2, <2>1, InvTypes, TypesApart DEF serverVars, adapterVars, ServerTypeOK, AdapterTypes
    <2>3. IntakeInv' /\ CallInv' /\ ClientInv'
      BY <1>2, <2>1 DEF IInv, serverVars, adapterVars, IntakeInv, IntakeOf, CallInv, CallOf,
                        ClientInv
    <2>4. QED BY <2>2, <2>3 DEF IInv
  <1>3. QED BY <1>1, <1>2

\* The inductive invariant: what the size guard has put aside, how far a call
\* and its request are, and which HTTP clients are open go together.
THEOREM Invariance == Spec => []IInv
  BY InitInv, NextInv, PTL DEF Spec

\* Every variable of the adapter and of the server has its type (Remote!TypeOK),
\* for any number of slots, verbs and messages of a body.
THEOREM TypeCorrect == Spec => []TypeOK
  BY Invariance, PTL DEF IInv

-----------------------------------------------------------------------------
(* What the program can count on *)

\* However a body is cut into messages, whether its length is declared or not,
\* the server never holds more than MaxBytes of it, and the adapter gets it as
\* it was sent or not at all.
THEOREM BodySafe == Spec => []BodyWholeAndBounded
  <1>1. ASSUME IInv, NEW x \in Slots
        PROVE  /\ Fits(intake[x].read \o intake[x].kept)
               /\ stage[x] = "adapter" /\ req[x].verb \in JSONVerbs => intake[x].read = req[x].body
    <2>1. stage[x] \in Stages /\ intake[x] \in Intake /\ IntakeOf(x)
      BY <1>1, InvTypes, ServerTypes DEF IntakeInv
    <2>2. <<>> \o <<>> = <<>> /\ Fits(<<>>)
      BY NoMessages DEF Fits
    <2>3. Fits(intake[x].read \o intake[x].kept)
      <3>1. CASE stage[x] \in {"none", "answered", "lost", "arrived"}
        <4>1. intake[x].read = <<>> /\ intake[x].kept = <<>>
          BY <2>1, <3>1 DEF IntakeOf, Nothing, Coming
        <4>2. QED BY <2>2, <4>1
      <3>2. CASE stage[x] = "guard"
        <4>1. GuardHas(intake[x], req[x].body)
          BY <2>1, <3>2 DEF IntakeOf
        <4>2. <<>> \o intake[x].kept = intake[x].kept
          BY <2>1, ConcatEmptySeq DEF Intake
        <4>3. QED BY <4>1, <4>2 DEF GuardHas, Fits
      <3>3. CASE stage[x] \in {"route", "reading", "adapter"}
        BY <2>1, <3>3 DEF IntakeOf, RouteHas
      <3>4. QED BY <2>1, <3>1, <3>2, <3>3 DEF Stages
    <2>4. QED BY <2>1, <2>3 DEF IntakeOf
  <1>2. IInv => BodyWholeAndBounded
    BY <1>1 DEF BodyWholeAndBounded
  <1>3. QED BY <1>2, Invariance, PTL

\* What the size guard has put aside is enough for the route: it asks for no
\* message of the body after the last one that was kept (`return await
\* receive()` in replay() stays unused).
THEOREM BufferSuffices ==
    Spec => [](\A x \in Slots : stage[x] = "reading" /\ ~ Complete(x) =>
                  intake[x].kept # <<>> \/ intake[x].cut)
  <1>1. ASSUME IInv, NEW x \in Slots, stage[x] = "reading", intake[x].kept = <<>>,
               ~ intake[x].cut
        PROVE  Complete(x)
    <2>1. RouteHas(intake[x], req[x].body) /\ intake[x].read \in Seq(Nat)
      BY <1>1, InvTypes, ServerTypes DEF IntakeInv, IntakeOf, Intake
    <2>2. intake[x].read \o <<>> = intake[x].read
      BY <2>1, ConcatEmptySeq
    <2>3. QED BY <1>1, <2>1, <2>2 DEF RouteHas, Complete
  <1>2. IInv => \A x \in Slots : stage[x] = "reading" /\ ~ Complete(x) =>
                                   intake[x].kept # <<>> \/ intake[x].cut
    <2>1. IInv => \A x \in Slots : intake[x].cut \in BOOLEAN
      BY InvTypes, ServerTypes DEF Intake
    <2>2. QED BY <1>1, <2>1
  <1>3. QED BY <1>2, Invariance, PTL

\* A call that returns has taken effect once, and one that was refused not at
\* all, also later: only a ProviderError, or what httpx raises by itself, says
\* nothing of it (nor a refusal of a write that is several requests upstream).
THEOREM OutcomeTrue == Spec => []OutcomeTellsEffect
  <1>1. IInv => OutcomeTellsEffect
    BY DEF IInv, CallInv, CallOf, OutcomeTellsEffect
  <1>2. QED BY <1>1, Invariance, PTL

\* Two clients are never open at once, and after close() none is, but for the
\* one that a call makes which waited for its probe meanwhile.
THEOREM Released == Spec => []ClientReleased
  <1>1. ASSUME IInv PROVE ClientReleased
    <2>1. ClientIds = {1, 2} /\ kind \in {"sync", "async"} /\ closed \in BOOLEAN
      BY <1>1, InvTypes DEF ClientIds, AdapterTypes
    <2>2. ~ (clients[1] = "open" /\ clients[2] = "open")
      BY <1>1, <2>1 DEF IInv, ClientInv
    <2>3. \E i \in {1, 2} : {j \in ClientIds : clients[j] = "open"} \subseteq {i}
      BY <2>1, <2>2
    <2>4. Cardinality({j \in ClientIds : clients[j] = "open"}) <= 1
      <3>1. PICK i \in {1, 2} : {j \in ClientIds : clients[j] = "open"} \subseteq {i}
        BY <2>3
      <3>2. IsFiniteSet({i}) /\ Cardinality({i}) = 1
        BY FS_Singleton
      <3>3. Cardinality({j \in ClientIds : clients[j] = "open"}) <= Cardinality({i})
        BY <3>1, <3>2, FS_Subset
      <3>4. QED BY <3>2, <3>3
    <2>5. closed /\ ~ probing => \A i \in ClientIds : clients[i] # "open"
      BY <1>1, <2>1 DEF IInv, ClientInv
    <2>6. QED BY <2>4, <2>5 DEF ClientReleased
  <1>2. QED BY <1>1, Invariance, PTL

=============================================================================
