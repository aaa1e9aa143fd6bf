----------------------------- MODULE PcPerf_proofs -----------------------------
(***************************************************************************)
(* Proofs about PcPerf, for every frame size and any number of             *)
(* connections, bytes, visits and faults.                                  *)
(*                                                                         *)
(* LinkInv relates the link, the events on their way and what the host     *)
(* knows; FrameInv the bytes of the buffer to those the PC has sent;       *)
(* AdvInv the radio and its flag to where the two tasks are.               *)
(***************************************************************************)
EXTENDS PcPerf, SequenceTheorems, TLAPS

\* An event of this kind is on its way to the host task.
Pending(kind) == \E i \in 1 .. Len(events) : events[i].kind = kind

\* Where a task is in the call it is in.
At(t) == IF todo[t] = << >> THEN "none" ELSE Head(todo[t])

Kinds  == {"SYNC", "CONNECT", "FAILED", "ADV_COMPLETE", "DISCONNECT"}
OfRun  == {"CONNECT", "FAILED", "ADV_COMPLETE"}
Later  == {"stop", "disconnect", "start", "render", "forget"}
Active == {"advertise", "adv_start", "adv_on", "adv_off", "adv_stop"}

Ops == AdvSteps \cup Later \cup {"adv_stop", "init", "terminate"}

Events == [kind : Kinds, conn : Nat]

\* TypeOK, of the variables the properties are about, without the bounds.
Types ==
  /\ link \in Nat /\ conns \in Nat /\ sent \in Nat /\ s_conn_handle \in Nat
  /\ events \in Seq(Events)
  /\ radio \in BOOLEAN /\ s_advertising \in BOOLEAN /\ s_adv_wanted \in BOOLEAN
  /\ s_host_synced \in BOOLEAN /\ connected \in BOOLEAN /\ valid \in BOOLEAN
  /\ s_bin \in Seq([conn : Nat, pos : Nat])

\* The host task does one thing at a time; what the LVGL task does later are
\* whole calls, and the end of pc_perf_disconnect().
TodoInv ==
  /\ todo \in [Tasks -> Seq(Ops)]
  /\ Len(todo["host"]) <= 1
  /\ \A i \in 2 .. Len(todo["ui"]) : todo["ui"][i] \in Later

-----------------------------------------------------------------------------
(* The calls and the events as sequences. *)

\* What the assumption says of the frame size.
LEMMA Constants == FrameSize \in Nat \ {0}
BY PcPerfAssumption

\* What a step of a call leaves to do.
LEMMA StepEffect ==
  ASSUME TodoInv, NEW t \in Tasks, NEW op, NEW then \in Seq(Ops),
         Step(t, op, then),
         Len(then) <= 1 \/ (t = "ui" /\ then = <<"terminate", "forget">>)
  PROVE  /\ TodoInv'
         /\ At(t) = op /\ todo[t] # << >>
         /\ \A o \in Tasks \ {t} : todo'[o] = todo[o] /\ At(o)' = At(o)
         /\ then # << >> => At(t)' = then[1]
         /\ then = << >> /\ t = "host" => At(t)' = "none"
         /\ then = << >> => At(t)' \in Later \cup {"none"}
<1> DEFINE old  == todo[t]
           rest == Tail(todo[t])
           new  == then \o Tail(todo[t])
<1>1. /\ todo \in [Tasks -> Seq(Ops)] /\ old # << >> /\ Head(old) = op
      /\ todo' = [todo EXCEPT ![t] = new]
      /\ old \in Seq(Ops)
  BY DEF Step, TodoInv
<1>2. /\ t = "host" => Len(old) <= 1
      /\ t = "ui" => \A i \in 2 .. Len(old) : old[i] \in Later
  BY DEF TodoInv
<1>3. /\ rest \in Seq(Ops) /\ Len(rest) = Len(old) - 1
      /\ \A i \in 1 .. Len(rest) : rest[i] = old[i + 1]
  BY <1>1, HeadTailProperties
<1>4. /\ Len(old) \in Nat \ {0} /\ Len(rest) \in Nat /\ Len(then) \in Nat
      /\ \A i \in 1 .. Len(rest) : i + 1 \in 2 .. Len(old)
      /\ rest = << >> <=> Len(rest) = 0
      /\ then = << >> <=> Len(then) = 0
  <2>1. /\ rest = << >> <=> Len(rest) = 0
        /\ then = << >> <=> Len(then) = 0
        /\ old = << >> <=> Len(old) = 0
    BY <1>1, <1>3, EmptySeq
  <2>2. Len(old) \in Nat /\ Len(rest) \in Nat /\ Len(then) \in Nat
    BY <1>1, <1>3, LenProperties
  <2> HIDE DEF rest, old
  <2> QED BY <1>1, <1>3, <2>1, <2>2
<1>5. /\ new \in Seq(Ops) /\ Len(new) = Len(then) + Len(rest)
      /\ \A i \in 1 .. Len(then) + Len(rest) :
           new[i] = IF i <= Len(then) THEN then[i] ELSE rest[i - Len(then)]
  BY <1>3, ConcatProperties
<1> HIDE DEF rest, new
<1>6. /\ new = << >> <=> Len(new) = 0
      /\ new # << >> => Head(new) = new[1]
  BY <1>5, EmptySeq
<1>7. /\ \A o \in Tasks \ {t} : todo'[o] = todo[o]
      /\ todo'[t] = new
      /\ todo' \in [Tasks -> Seq(Ops)]
  BY <1>1, <1>5
<1>8. /\ \A o \in Tasks \ {t} : At(o)' = At(o)
      /\ At(t) = op /\ todo[t] # << >>
      /\ At(t)' = IF new = << >> THEN "none" ELSE new[1]
  BY <1>1, <1>6, <1>7 DEF At
<1>9. then # << >> => At(t)' = then[1]
  <2> HAVE then # << >>
  <2>1. 1 \in 1 .. Len(then) + Len(rest) /\ 1 <= Len(then) /\ Len(new) # 0
    BY <1>4, <1>5
  <2> QED BY <1>5, <1>6, <1>8, <2>1
<1>10. t = "host" => Len(new) <= 1 /\ (then = << >> => At(t)' = "none")
  <2> HAVE t = "host"
  <2>1. Len(then) <= 1 /\ Len(rest) = 0
    BY <1>2, <1>3, <1>4
  <2>2. Len(new) <= 1 /\ (then = << >> => Len(new) = 0)
    BY <1>4, <1>5, <2>1
  <2> QED BY <1>6, <1>8, <2>2
<1>11. t = "ui" => \A i \in 2 .. Len(new) : new[i] \in Later
  <2> SUFFICES ASSUME t = "ui", NEW i \in 2 .. Len(new)
               PROVE  new[i] \in Later
    OBVIOUS
  <2>1. CASE i <= Len(then)
    <3>1. Len(then) # 0 /\ ~(Len(then) <= 1)
      BY <1>4, <2>1
    <3>2. then = <<"terminate", "forget">>
      BY <3>1
    <3>3. i = 2 /\ new[i] = then[i]
      BY <1>4, <1>5, <2>1, <3>2
    <3> QED BY <3>2, <3>3 DEF Later
  <2>2. CASE i > Len(then)
    <3>1. i - Len(then) \in 1 .. Len(rest) /\ new[i] = rest[i - Len(then)]
      BY <1>4, <1>5, <2>2
    <3> QED BY <1>2, <1>3, <1>4, <3>1
  <2> QED BY <1>4, <2>1, <2>2
<1>12. then = << >> => At(t)' \in Later \cup {"none"}
  <2> HAVE then = << >>
  <2>1. CASE t = "ui" /\ new # << >>
    <3>1. 1 \in 1 .. Len(rest) /\ new[1] = rest[1]
      BY <1>4, <1>5, <1>6, <2>1
    <3> QED BY <1>2, <1>3, <1>4, <1>8, <2>1, <3>1
  <2>2. CASE t = "host" \/ new = << >>
    BY <1>8, <1>10, <2>2
  <2> QED BY <2>1, <2>2 DEF Tasks
<1>13. TodoInv'
  <2>1. t = "host" => Len(todo'["ui"]) = Len(todo["ui"]) /\ todo'["ui"] = todo["ui"]
    BY <1>7 DEF Tasks
  <2>2. t = "ui" => todo'["host"] = todo["host"]
    BY <1>7 DEF Tasks
  <2> QED BY <1>7, <1>10, <1>11, <2>1, <2>2 DEF TodoInv, Tasks
<1> QED BY <1>7, <1>8, <1>9, <1>10, <1>12, <1>13

\* An event is told.
LEMMA Told ==
  ASSUME events \in Seq(Events), NEW e \in Events, events' = Append(events, e)
  PROVE  /\ events' \in Seq(Events) /\ Len(events) \in Nat
         /\ Len(events') = Len(events) + 1
         /\ \A i \in 1 .. Len(events) : events'[i] = events[i]
         /\ events'[Len(events) + 1] = e
         /\ \A k \in Kinds : Pending(k)' <=> Pending(k) \/ k = e.kind
<1>1. /\ events' \in Seq(Events) /\ Len(events) \in Nat
      /\ Len(events') = Len(events) + 1
      /\ \A i \in 1 .. Len(events) : events'[i] = events[i]
      /\ events'[Len(events) + 1] = e
  OBVIOUS
<1>2. ASSUME NEW k \in Kinds
      PROVE  Pending(k)' <=> Pending(k) \/ k = e.kind
  <2>1. Pending(k)' <=> \E i \in 1 .. Len(events) + 1 : events'[i].kind = k
    BY <1>1 DEF Pending
  <2>2. \A i \in 1 .. Len(events) + 1 : i \in 1 .. Len(events) \/ i = Len(events) + 1
    BY <1>1
  <2>3. /\ Len(events) + 1 \in 1 .. Len(events) + 1
        /\ \A i \in 1 .. Len(events) : i \in 1 .. Len(events) + 1
    BY <1>1
  <2>4. Pending(k)' => Pending(k) \/ k = e.kind
    BY <1>1, <2>1, <2>2 DEF Pending
  <2>5. Pending(k) => Pending(k)'
    BY <1>1, <2>1, <2>3 DEF Pending
  <2>6. k = e.kind => Pending(k)'
    BY <1>1, <2>1, <2>3
  <2> QED BY <2>4, <2>5, <2>6
<1> QED BY <1>1, <1>2

\* The oldest one is handled.
LEMMA Handled ==
  ASSUME events \in Seq(Events), NEW kind, Handle(kind)
  PROVE  /\ events' \in Seq(Events) /\ Len(events) \in Nat \ {0}
         /\ Len(events') = Len(events) - 1
         /\ \A i \in 1 .. Len(events') :
              i + 1 \in 1 .. Len(events) /\ events'[i] = events[i + 1]
         /\ Head(events) = events[1] /\ events[1] \in Events
         /\ events[1].kind = kind /\ 1 \in 1 .. Len(events)
         /\ \A k \in Kinds : Pending(k)' => Pending(k)
         /\ \A k \in Kinds \ {kind} : Pending(k) => Pending(k)'
         /\ Pending(kind)
         /\ todo["host"] = << >>
<1>1. /\ events # << >> /\ Head(events).kind = kind /\ events' = Tail(events)
      /\ todo["host"] = << >>
  BY DEF Handle
<1>2. /\ events' \in Seq(Events) /\ Len(events) \in Nat \ {0}
      /\ Len(events') = Len(events) - 1
      /\ \A i \in 1 .. Len(events') :
           i + 1 \in 1 .. Len(events) /\ events'[i] = events[i + 1]
      /\ Head(events) = events[1] /\ events[1] \in Events
      /\ 1 \in 1 .. Len(events)
  BY <1>1
<1>3. \A k \in Kinds : Pending(k)' => Pending(k)
  BY <1>2 DEF Pending
<1>4. ASSUME NEW k \in Kinds \ {kind}, Pending(k)
      PROVE  Pending(k)'
  <2>1. PICK i \in 1 .. Len(events) : events[i].kind = k
    BY <1>4 DEF Pending
  <2>2. i # 1
    BY <1>1, <1>2, <2>1
  <2>3. i - 1 \in 1 .. Len(events') /\ (i - 1) + 1 = i
    BY <1>2, <2>2
  <2>4. events'[i - 1].kind = k
    BY <1>2, <2>1, <2>3
  <2> QED BY <2>3, <2>4 DEF Pending
<1> QED BY <1>1, <1>2, <1>3, <1>4 DEF Pending

-----------------------------------------------------------------------------
(* The link, what the host knows of it, and the events in between. *)

\* After a connection, or the end of one, the radio says nothing of a run
\* before it has been told of.
Ordered ==
  \A i \in 1 .. Len(events) :
    events[i].kind \in {"CONNECT", "DISCONNECT"} =>
      \A j \in i + 1 .. Len(events) :
        /\ events[j].kind \notin OfRun
        /\ events[i].kind = "DISCONNECT" => events[j].kind # "DISCONNECT"

\* A connection the host has not been told of is the last one made.
Numbered ==
  \A i \in 1 .. Len(events) :
    events[i].kind = "CONNECT" => events[i].conn = conns /\ conns # NONE

LinkFacts ==
  /\ link # NONE => link = conns
  /\ radio \/ Pending("DISCONNECT") => link = NONE
  /\ radio => ~Pending("DISCONNECT")
  /\ Pending("CONNECT") =>
       ~connected /\ ~valid /\ (link # NONE \/ Pending("DISCONNECT"))
  /\ Pending("FAILED") => ~connected
  /\ connected => s_conn_handle = conns
  /\ connected \/ valid => link # NONE \/ Pending("DISCONNECT")
  /\ connected <=> s_conn_handle # NONE
  /\ "ghost" \notin excused /\ link # NONE => connected \/ Pending("CONNECT")

LinkInv == Ordered /\ Numbered /\ LinkFacts

\* Nothing is told or handled.
LEMMA NoNews ==
  ASSUME UNCHANGED events
  PROVE  /\ \A k \in Kinds : Pending(k)' <=> Pending(k)
         /\ Ordered' <=> Ordered
         /\ conns' = conns => (Numbered' <=> Numbered)
BY DEF Pending, Ordered, Numbered

\* The order of the events, with a new one.
LEMMA ToldInOrder ==
  ASSUME events \in Seq(Events), Ordered, NEW e \in Events,
         events' = Append(events, e),
         Pending("CONNECT") => e.kind \notin OfRun,
         Pending("DISCONNECT") => e.kind \notin OfRun \cup {"DISCONNECT"}
  PROVE  Ordered'
<1>1. /\ Len(events) \in Nat /\ Len(events') = Len(events) + 1
      /\ \A i \in 1 .. Len(events) : events'[i] = events[i]
      /\ events'[Len(events) + 1] = e
  BY Told
<1> SUFFICES ASSUME NEW i \in 1 .. Len(events'),
                    events'[i].kind \in {"CONNECT", "DISCONNECT"},
                    NEW j \in i + 1 .. Len(events')
             PROVE  /\ events'[j].kind \notin OfRun
                    /\ events'[i].kind = "DISCONNECT" => events'[j].kind # "DISCONNECT"
  BY DEF Ordered
<1>2. i \in 1 .. Len(events) /\ events'[i] = events[i]
  BY <1>1
<1>3. CASE j \in i + 1 .. Len(events)
  <2>1. events'[j] = events[j]
    BY <1>1, <1>2, <1>3
  <2> QED BY <1>2, <1>3, <2>1 DEF Ordered
<1>4. CASE j = Len(events) + 1
  <2>1. Pending(events[i].kind)
    BY <1>2 DEF Pending
  <2> QED BY <1>1, <1>2, <1>4, <2>1
<1> QED BY <1>1, <1>2, <1>3, <1>4

\* The order of the events, without the oldest.
LEMMA HandledInOrder ==
  ASSUME events \in Seq(Events), Ordered, NEW kind, Handle(kind)
  PROVE  /\ Ordered'
         /\ kind \in {"CONNECT", "DISCONNECT"} => \A k \in OfRun : ~Pending(k)'
         /\ kind = "DISCONNECT" => ~Pending("DISCONNECT")'
<1>1. /\ Len(events) \in Nat \ {0} /\ Len(events') = Len(events) - 1
      /\ \A i \in 1 .. Len(events') :
           i + 1 \in 1 .. Len(events) /\ events'[i] = events[i + 1]
      /\ events[1].kind = kind /\ 1 \in 1 .. Len(events)
  BY Handled
<1>2. ASSUME NEW i \in 1 .. Len(events'),
             events'[i].kind \in {"CONNECT", "DISCONNECT"},
             NEW j \in i + 1 .. Len(events')
      PROVE  /\ events'[j].kind \notin OfRun
             /\ events'[i].kind = "DISCONNECT" => events'[j].kind # "DISCONNECT"
  <2>1. /\ i + 1 \in 1 .. Len(events) /\ j + 1 \in (i + 1) + 1 .. Len(events)
        /\ j \in 1 .. Len(events')
    BY <1>1
  <2>2. events'[i] = events[i + 1] /\ events'[j] = events[j + 1]
    BY <1>1, <2>1
  <2> QED BY <1>2, <2>1, <2>2 DEF Ordered
<1>3. ASSUME kind \in {"CONNECT", "DISCONNECT"}, NEW i \in 1 .. Len(events')
      PROVE  /\ events'[i].kind \notin OfRun
             /\ kind = "DISCONNECT" => events'[i].kind # "DISCONNECT"
  <2>1. i + 1 \in 1 + 1 .. Len(events) /\ events'[i] = events[i + 1]
    BY <1>1
  <2> QED BY <1>1, <1>3, <2>1 DEF Ordered
<1> QED BY <1>2, <1>3 DEF Ordered, Pending

\* While the radio advertises there is no link and none is on its way.
LEMMA Searching ==
  ASSUME LinkInv, radio
  PROVE  /\ link = NONE /\ ~connected /\ ~valid
         /\ ~Pending("CONNECT") /\ ~Pending("DISCONNECT")
BY DEF LinkInv, LinkFacts

-----------------------------------------------------------------------------
(* Types. *)

\* Nothing to do, and one thing to do, are lists of steps.
LEMMA Short ==
  /\ << >> \in Seq(Ops) /\ Len(<< >>) = 0
  /\ \A op \in Ops : <<op>> \in Seq(Ops) /\ Len(<<op>>) = 1 /\ <<op>>[1] = op /\ <<op>> # << >>
<1>1. << >> \in Seq(Ops) /\ Len(<< >>) = 0
  BY EmptySeq
<1>2. ASSUME NEW op \in Ops
      PROVE  <<op>> \in Seq(Ops) /\ Len(<<op>>) = 1 /\ <<op>>[1] = op /\ <<op>> # << >>
  OBVIOUS
<1> QED BY <1>1, <1>2

\* A handler goes on with the test of the wish.
LEMMA WantedEffect ==
  ASSUME TodoInv, todo["host"] = << >>, Wanted
  PROVE  /\ TodoInv'
         /\ todo'["ui"] = todo["ui"] /\ At("ui")' = At("ui")
         /\ todo'["host"] = <<"wanted">> /\ At("host")' = "wanted"
<1>1. <<"wanted">> \in Seq(Ops)
  BY DEF Ops, AdvSteps
<1>2. /\ todo' \in [Tasks -> Seq(Ops)]
      /\ todo'["ui"] = todo["ui"] /\ todo'["host"] = <<"wanted">>
  BY <1>1 DEF TodoInv, Wanted, Tasks
<1>3. Len(todo'["host"]) = 1 /\ Head(todo'["host"]) = "wanted" /\ todo'["host"] # << >>
  BY <1>2
<1> QED BY <1>2, <1>3 DEF TodoInv, At

\* The page begins a tick.
LEMMA TickEffect ==
  ASSUME TodoInv, Tick
  PROVE  /\ TodoInv'
         /\ todo["ui"] = << >>
         /\ todo'["host"] = todo["host"] /\ At("host")' = At("host")
         /\ At("ui") = "none" /\ At("ui")' \in {"none", "init", "stop", "start", "disconnect"}
<1>1. /\ todo \in [Tasks -> Seq(Ops)] /\ todo["ui"] = << >>
      /\ todo' = [todo EXCEPT !["ui"] = Plan]
  BY DEF TodoInv, Tick
<1>2. ASSUME NEW a \in Seq(Ops), NEW b \in Seq(Ops), Len(a) = 1 \/ a = << >>,
             \A i \in 1 .. Len(b) : b[i] \in Later,
             Plan = a \o b
      PROVE  /\ Plan \in Seq(Ops)
             /\ \A i \in 2 .. Len(Plan) : Plan[i] \in Later
             /\ Plan # << >> => Head(Plan) \in {a[1], b[1]}
  <2>1. /\ Plan \in Seq(Ops) /\ Len(Plan) = Len(a) + Len(b)
        /\ Len(a) \in 0 .. 1 /\ Len(b) \in Nat
        /\ \A i \in 1 .. Len(a) + Len(b) :
             Plan[i] = IF i <= Len(a) THEN a[i] ELSE b[i - Len(a)]
    BY <1>2, ConcatProperties, EmptySeq
  <2>2. /\ \A i \in 2 .. Len(Plan) : Plan[i] = b[i - Len(a)] /\ i - Len(a) \in 1 .. Len(b)
        /\ Len(Plan) # 0 => Plan[1] \in {a[1], b[1]}
    BY <2>1
  <2>3. Plan # << >> => Len(Plan) # 0 /\ Head(Plan) = Plan[1]
    BY <2>1, EmptySeq
  <2> QED BY <1>2, <2>1, <2>2, <2>3
<1>3. /\ Plan \in Seq(Ops)
      /\ \A i \in 2 .. Len(Plan) : Plan[i] \in Later
      /\ Plan # << >> => Head(Plan) \in {"init", "stop", "start", "disconnect"}
  <2>1. CASE ~visible /\ s_ble_started
    <3> DEFINE b == IF s_src # "BLE" THEN <<"disconnect">> ELSE << >>
    <3>1. Plan = <<"stop">> \o b
      BY <2>1 DEF Plan
    <3>2. /\ b \in Seq(Ops) /\ \A i \in 1 .. Len(b) : b[i] \in Later
          /\ b # << >> => b[1] = "disconnect"
      <4>1. CASE s_src # "BLE"
        <5>1. b = <<"disconnect">>
          BY <4>1
        <5>2. <<"disconnect">> \in Seq(Ops) /\ Len(<<"disconnect">>) = 1
          BY DEF Ops, Later
        <5> HIDE DEF b
        <5> QED BY <5>1, <5>2 DEF Later
      <4>2. CASE s_src = "BLE"
        <5>1. b = << >>
          BY <4>2
        <5> HIDE DEF b
        <5> QED BY <5>1, Short
      <4> QED BY <4>1, <4>2
    <3>3. <<"stop">> \in Seq(Ops) /\ Len(<<"stop">>) = 1 /\ <<"stop">>[1] = "stop"
      BY DEF Ops, Later
    <3> HIDE DEF b
    <3> QED BY <3>1, <3>2, <3>3, ConcatProperties
  <2>2. CASE ~visible /\ ~s_ble_started
    BY <2>2, Short DEF Plan
  <2>3. CASE visible /\ s_src = "BLE"
    <3> DEFINE a == IF s_ble_started THEN << >> ELSE <<"init">>
    <3>1. Plan = a \o <<"start", "render">>
      BY <2>3 DEF Plan
    <3>2. a \in Seq(Ops) /\ (a = << >> \/ (Len(a) = 1 /\ a[1] = "init"))
      <4>1. CASE ~s_ble_started
        <5>1. a = <<"init">>
          BY <4>1
        <5>2. <<"init">> \in Seq(Ops) /\ Len(<<"init">>) = 1 /\ <<"init">>[1] = "init"
          BY DEF Ops
        <5> HIDE DEF a
        <5> QED BY <5>1, <5>2
      <4>2. CASE s_ble_started
        <5>1. a = << >>
          BY <4>2
        <5> HIDE DEF a
        <5> QED BY <5>1, Short
      <4> QED BY <4>1, <4>2
    <3> DEFINE b == <<"start", "render">>
    <3>3. /\ b \in Seq(Ops) /\ Len(b) = 2 /\ \A i \in 1 .. Len(b) : b[i] \in Later
          /\ b[1] = "start"
      BY DEF Ops, Later
    <3>4. Plan = a \o b
      BY <3>1
    <3> HIDE DEF a, b
    <3>5. /\ Plan \in Seq(Ops)
          /\ \A i \in 2 .. Len(Plan) : Plan[i] \in Later
          /\ Plan # << >> => Head(Plan) \in {a[1], b[1]}
      BY <1>2, <3>2, <3>3, <3>4
    <3>6. CASE a = << >>
      <4>1. Plan = b
        BY <3>3, <3>4, <3>6
      <4> QED BY <3>3, <3>5, <4>1
    <3>7. CASE a # << >>
      BY <3>2, <3>3, <3>5, <3>7
    <3> QED BY <3>6, <3>7
  <2>4. CASE visible /\ s_src # "BLE"
    <3>1. Plan = <<"disconnect", "stop", "render">>
      BY <2>4 DEF Plan
    <3> QED BY <3>1 DEF Ops, Later
  <2> QED BY <2>1, <2>2, <2>3, <2>4
<1> HIDE DEF Plan
<1>4. /\ todo' \in [Tasks -> Seq(Ops)] /\ todo'["ui"] = Plan
      /\ todo'["host"] = todo["host"]
  BY <1>1, <1>3 DEF Tasks
<1> QED BY <1>1, <1>3, <1>4 DEF TodoInv, At

\* A step that goes on with one thing.
LEMMA StepOne ==
  ASSUME TodoInv, NEW t \in Tasks, NEW op, NEW next \in Ops, Step(t, op, <<next>>)
  PROVE  /\ TodoInv' /\ At(t) = op /\ todo[t] # << >> /\ At(t)' = next
         /\ \A o \in Tasks \ {t} : todo'[o] = todo[o] /\ At(o)' = At(o)
<1>1. <<next>> \in Seq(Ops) /\ Len(<<next>>) = 1 /\ <<next>> # << >> /\ <<next>>[1] = next
  BY Short
<1> QED BY <1>1, StepEffect

\* The end of a call.
LEMMA StepNone ==
  ASSUME TodoInv, NEW t \in Tasks, NEW op, Step(t, op, << >>)
  PROVE  /\ TodoInv' /\ At(t) = op /\ todo[t] # << >>
         /\ At(t)' \in Later \cup {"none"}
         /\ t = "host" => At(t)' = "none"
         /\ \A o \in Tasks \ {t} : todo'[o] = todo[o] /\ At(o)' = At(o)
<1> DEFINE then == << >>
<1>1. then \in Seq(Ops) /\ Len(then) <= 1 /\ then = << >>
  BY Short
<1>2. Step(t, op, then)
  OBVIOUS
<1> HIDE DEF then
<1> QED BY <1>1, <1>2, StepEffect

\* The calls that go on by a test.
LEMMA Tests ==
  /\ StartTest => Step("ui", "start_test", << >>) \/ Step("ui", "start_test", <<"advertise">>)
  /\ StopTest => Step("ui", "stop_test", << >>) \/ Step("ui", "stop_test", <<"adv_stop">>)
  /\ Readvertise => Step("host", "wanted", << >>) \/ Step("host", "wanted", <<"advertise">>)
  /\ EndTest => Step("ui", "disconnect", << >>)
                \/ Step("ui", "disconnect", <<"terminate", "forget">>)
<1>1. ASSUME StartTest
      PROVE  Step("ui", "start_test", << >>) \/ Step("ui", "start_test", <<"advertise">>)
  <2>1. CASE ~s_host_synced \/ connected \/ s_advertising
    BY <1>1, <2>1 DEF StartTest
  <2>2. CASE ~(~s_host_synced \/ connected \/ s_advertising)
    BY <1>1, <2>2 DEF StartTest
  <2> QED BY <2>1, <2>2
<1>2. ASSUME StopTest
      PROVE  Step("ui", "stop_test", << >>) \/ Step("ui", "stop_test", <<"adv_stop">>)
  <2>1. CASE s_advertising
    BY <1>2, <2>1 DEF StopTest
  <2>2. CASE ~s_advertising
    BY <1>2, <2>2 DEF StopTest
  <2> QED BY <2>1, <2>2
<1>3. ASSUME Readvertise
      PROVE  Step("host", "wanted", << >>) \/ Step("host", "wanted", <<"advertise">>)
  <2>1. CASE s_adv_wanted
    BY <1>3, <2>1 DEF Readvertise
  <2>2. CASE ~s_adv_wanted
    BY <1>3, <2>2 DEF Readvertise
  <2> QED BY <2>1, <2>2
<1>4. ASSUME EndTest
      PROVE  Step("ui", "disconnect", << >>)
             \/ Step("ui", "disconnect", <<"terminate", "forget">>)
  <2>1. CASE ~connected \/ s_conn_handle = NONE
    BY <1>4, <2>1 DEF EndTest
  <2>2. CASE ~(~connected \/ s_conn_handle = NONE)
    BY <1>4, <2>2 DEF EndTest
  <2> QED BY <2>1, <2>2
<1> QED BY <1>1, <1>2, <1>3, <1>4

\* What pc_perf_disconnect() has to do after its test.
LEMMA EndTestEffect ==
  ASSUME TodoInv, EndTest
  PROVE  /\ TodoInv' /\ At("ui") = "disconnect"
         /\ At("ui")' \in Later \cup {"none", "terminate"}
         /\ todo'["host"] = todo["host"] /\ At("host")' = At("host")
<1>1. "ui" \in Tasks /\ "host" \in Tasks \ {"ui"}
  BY DEF Tasks
<1>2. CASE Step("ui", "disconnect", << >>)
  BY <1>1, <1>2, StepNone
<1>3. CASE Step("ui", "disconnect", <<"terminate", "forget">>)
  <2> DEFINE then == <<"terminate", "forget">>
  <2>1. then \in Seq(Ops) /\ then # << >> /\ then[1] = "terminate"
    BY DEF Ops, Later
  <2>2. Step("ui", "disconnect", then) /\ then = <<"terminate", "forget">>
    BY <1>3
  <2> HIDE DEF then
  <2> QED BY <1>1, <2>1, <2>2, StepEffect
<1> QED BY <1>2, <1>3, Tests

\* The calls are left alone.
LEMMA TodoSame == TodoInv /\ UNCHANGED todo => TodoInv' /\ \A t \in Tasks : At(t)' = At(t)
BY DEF TodoInv, At

\* Every step keeps TodoInv.
LEMMA TodoStep == TodoInv /\ [Next]_vars => TodoInv'
<1> SUFFICES ASSUME TodoInv, [Next]_vars PROVE TodoInv'
  OBVIOUS
<1>T. "ui" \in Tasks /\ "host" \in Tasks
  BY DEF Tasks
<1>O. {"adv_start", "adv_on", "adv_off", "start_test", "stop_test", "advertise", "adv_stop"}
        \subseteq Ops
  BY DEF Ops, AdvSteps
<1>1. ASSUME NEW t \in Tasks, Advertise(t)
      PROVE  TodoInv'
  <2>1. \/ Step(t, "advertise", <<"adv_start">>) \/ Step(t, "advertise", << >>)
        \/ Step(t, "adv_start", <<"adv_on">>) \/ Step(t, "adv_start", <<"adv_off">>)
        \/ Step(t, "adv_on", << >>) \/ Step(t, "adv_off", << >>)
    BY <1>1 DEF Advertise, AdvFields, AdvStart, AdvFlag
  <2> QED BY <2>1, <1>O, StepOne, StepNone
<1>2. CASE StartWanted \/ StopWanted \/ StartTest \/ StopTest \/ StopRadio \/ Render
            \/ Forget \/ Terminate \/ InitBle
  <2>1. \/ Step("ui", "start", <<"start_test">>) \/ Step("ui", "stop", <<"stop_test">>)
        \/ Step("ui", "start_test", << >>) \/ Step("ui", "start_test", <<"advertise">>)
        \/ Step("ui", "stop_test", << >>) \/ Step("ui", "stop_test", <<"adv_stop">>)
        \/ \E op \in {"adv_stop", "render", "forget", "terminate", "init"} :
             Step("ui", op, << >>)
    BY <1>2, Tests DEF StartWanted, StopWanted, StopRadio, Render, Forget, Terminate, InitBle
  <2> QED BY <2>1, <1>O, <1>T, StepOne, StepNone
<1>3. CASE EndTest
  BY <1>3, EndTestEffect
<1>4. CASE Readvertise
  BY <1>4, <1>O, <1>T, Tests, StepOne, StepNone
<1>5. CASE Tick
  BY <1>5, TickEffect
<1>6. CASE OnSync \/ OnConnectFailed \/ OnDisconnect \/ OnAdvComplete
  <2>1. todo["host"] = << >> /\ (Wanted \/ UNCHANGED todo)
    BY <1>6 DEF OnSync, OnConnectFailed, OnDisconnect, OnAdvComplete, Handle
  <2> QED BY <2>1, WantedEffect, TodoSame
<1>7. CASE \/ OnConnect \/ Leave \/ PcConnects \/ RunEnds("FAILED") \/ RunEnds("ADV_COMPLETE")
           \/ LinkDrops \/ Ages \/ UNCHANGED vars
           \/ (\E src \in Sources : Choose(src)) \/ (\E n \in 1..FrameSize+1 : Write(n))
  <2>1. UNCHANGED todo
    BY <1>7 DEF OnConnect, Leave, PcConnects, RunEnds, LinkDrops, Ages, Air, vars, Choose,
                Write
  <2> QED BY <2>1, TodoSame
<1> QED BY <1>1, <1>2, <1>3, <1>4, <1>5, <1>6, <1>7, <1>T DEF Next, UiSteps, HostSteps

-----------------------------------------------------------------------------
(* What a write does to the buffer and to the sample. *)

\* A write of n bytes: what is fed, what stays, and what is taken.
LEMMA WriteEffect ==
  ASSUME Types, NEW n \in 1 .. FrameSize + 1, Write(n)
  PROVE  /\ s_bin' \in Seq([conn : Nat, pos : Nat]) /\ valid' \in BOOLEAN
         /\ \E kept \in 1 .. FrameSize, fed \in Seq([conn : Nat, pos : Nat]) :
           /\ kept <= n /\ (kept < n => "cut" \in excused')
           /\ Len(fed) = Len(s_bin) + kept
           /\ \A i \in 1 .. Len(s_bin) : fed[i] = s_bin[i]
           /\ \A i \in Len(s_bin) + 1 .. Len(s_bin) + kept :
                fed[i] = [conn |-> link, pos |-> sent + i - Len(s_bin) - 1]
           /\ IF Len(fed) >= FrameSize
              THEN /\ Len(s_bin') = Len(fed) - FrameSize
                   /\ \A i \in 1 .. Len(s_bin') : s_bin'[i] = fed[FrameSize + i]
              ELSE s_bin' = fed
           /\ \/ UNCHANGED <<sample, valid>>
              \/ /\ Len(fed) >= FrameSize /\ fed[1].pos % FrameSize = 0
                 /\ valid' = TRUE
                 /\ \A i \in 1 .. FrameSize : sample'[i] = fed[i]
<1> DEFINE Data == [conn : Nat, pos : Nat]
<1>1. FrameSize \in Nat \ {0} /\ sent \in Nat /\ link \in Nat /\ n \in Nat \ {0}
      /\ s_bin \in Seq(Data) /\ Len(s_bin) \in Nat /\ valid \in BOOLEAN
  BY Constants DEF Types
<1> DEFINE kept == IF n > FrameSize THEN FrameSize ELSE n
           more == [i \in 1..kept |-> [conn |-> link, pos |-> sent + i - 1]]
           fed  == s_bin \o more
           take == Len(fed) >= FrameSize /\ IsHeader(fed[1])
<1>2. /\ s_bin' = Remaining(fed)
      /\ sample' = IF take THEN SubSeq(fed, 1, FrameSize) ELSE sample
      /\ valid' = (valid \/ take)
      /\ excused' = excused \cup (IF kept < n THEN {"cut"} ELSE {})
  BY DEF Write, Excuse
<1>3. kept \in 1 .. FrameSize /\ kept <= n
  BY <1>1
<1>4. kept < n => "cut" \in excused'
  BY <1>2
<1> HIDE DEF kept
<1>5. /\ more \in Seq(Data) /\ Len(more) = kept
      /\ \A i \in 1 .. kept : more[i] = [conn |-> link, pos |-> sent + i - 1]
  <2>1. \A i \in 1 .. kept : [conn |-> link, pos |-> sent + i - 1] \in Data
    BY <1>1, <1>3
  <2>2. kept \in Nat
    BY <1>1, <1>3
  <2> QED BY <2>1, <2>2
<1> HIDE DEF more
<1>6. /\ fed \in Seq(Data) /\ Len(fed) = Len(s_bin) + kept
      /\ \A i \in 1 .. Len(s_bin) + kept :
           fed[i] = IF i <= Len(s_bin) THEN s_bin[i] ELSE more[i - Len(s_bin)]
  BY <1>1, <1>5, ConcatProperties
<1> HIDE DEF fed
<1>7. /\ \A i \in 1 .. Len(s_bin) : fed[i] = s_bin[i]
      /\ \A i \in Len(s_bin) + 1 .. Len(s_bin) + kept :
           fed[i] = [conn |-> link, pos |-> sent + i - Len(s_bin) - 1]
  <2>1. \A i \in 1 .. Len(s_bin) : fed[i] = s_bin[i]
    <3> SUFFICES ASSUME NEW i \in 1 .. Len(s_bin) PROVE fed[i] = s_bin[i]
      OBVIOUS
    <3>1. i \in 1 .. Len(s_bin) + kept /\ i <= Len(s_bin)
      BY <1>1, <1>3
    <3> QED BY <1>6, <3>1
  <2>2. ASSUME NEW i \in Len(s_bin) + 1 .. Len(s_bin) + kept
        PROVE  fed[i] = [conn |-> link, pos |-> sent + i - Len(s_bin) - 1]
    <3>1. i - Len(s_bin) \in 1 .. kept /\ i \in 1 .. Len(s_bin) + kept
          /\ ~(i <= Len(s_bin)) /\ sent + (i - Len(s_bin)) - 1 = sent + i - Len(s_bin) - 1
      BY <1>1, <1>3
    <3> QED BY <1>5, <1>6, <3>1
  <2> QED BY <2>1, <2>2
<1>8. /\ s_bin' \in Seq(Data)
      /\ IF Len(fed) >= FrameSize
         THEN /\ Len(s_bin') = Len(fed) - FrameSize
              /\ \A i \in 1 .. Len(s_bin') : s_bin'[i] = fed[FrameSize + i]
         ELSE s_bin' = fed
  <2>1. CASE Len(fed) >= FrameSize
    <3>1. s_bin' = SubSeq(fed, FrameSize + 1, Len(fed))
      BY <1>2, <2>1 DEF Remaining
    <3>2. FrameSize + 1 \in 1 .. Len(fed) + 1 /\ Len(fed) \in FrameSize .. Len(fed)
      BY <1>1, <1>6, <2>1
    <3>3. /\ s_bin' \in Seq(Data)
          /\ Len(s_bin') = IF FrameSize + 1 <= Len(fed)
                            THEN Len(fed) - (FrameSize + 1) + 1 ELSE 0
          /\ \A i \in 1 .. Len(fed) - (FrameSize + 1) + 1 :
               s_bin'[i] = fed[(FrameSize + 1) + i - 1]
      <4>1. FrameSize + 1 \in Int /\ Len(fed) \in Int
        BY <1>1, <1>6, <3>2
      <4>2. \A i \in FrameSize + 1 .. Len(fed) : fed[i] \in Data
        <5>1. \A i \in FrameSize + 1 .. Len(fed) : i \in 1 .. Len(fed)
          BY <1>1, <1>6
        <5> QED BY <1>6, <5>1, ElementOfSeq
      <4> QED BY <3>1, <4>1, <4>2, SubSeqProperties
    <3>4. Len(fed) - (FrameSize + 1) + 1 = Len(fed) - FrameSize
      BY <1>1, <1>6
    <3>5. \A i \in Int : (FrameSize + 1) + i - 1 = FrameSize + i
      BY <1>1
    <3>6. Len(s_bin') = Len(fed) - FrameSize
      BY <1>1, <1>6, <2>1, <3>3
    <3>7. ASSUME NEW i \in 1 .. Len(s_bin')
          PROVE  s_bin'[i] = fed[FrameSize + i]
      <4>1. i \in 1 .. Len(fed) - (FrameSize + 1) + 1
        BY <3>4, <3>6
      <4>2. i \in Int
        OBVIOUS
      <4> QED BY <3>3, <3>5, <4>1, <4>2
    <3> QED BY <2>1, <3>3, <3>6, <3>7
  <2>2. CASE ~(Len(fed) >= FrameSize)
    BY <1>2, <1>6, <2>2 DEF Remaining
  <2> QED BY <2>1, <2>2
<1>9. \/ UNCHANGED <<sample, valid>>
      \/ /\ Len(fed) >= FrameSize /\ fed[1].pos % FrameSize = 0
         /\ valid' = TRUE
         /\ \A i \in 1 .. FrameSize : sample'[i] = fed[i]
  <2>1. CASE take
    <3>1. sample' = SubSeq(fed, 1, FrameSize) /\ Len(fed) >= FrameSize /\ Len(fed) \in Nat
      BY <1>1, <1>2, <1>3, <1>6, <2>1
    <3>2. \A i \in 1 .. FrameSize : sample'[i] = fed[i]
      BY <1>1, <1>6, <3>1
    <3> QED BY <1>2, <2>1, <3>1, <3>2 DEF IsHeader
  <2>2. CASE ~take
    BY <1>1, <1>2, <2>2
  <2> QED BY <2>1, <2>2
<1>10. valid' \in BOOLEAN
  BY <1>1, <1>9
<1> QED BY <1>3, <1>4, <1>6, <1>7, <1>8, <1>9, <1>10

\* Every step keeps the types.
LEMMA TypesStep ==
  ASSUME Types, [Next]_vars
  PROVE  Types'
<1> USE DEF airVars, advVars, linkVars, dataVars, initVars, srcVars, pageVars
<1>F. FrameSize \in Nat \ {0}
  BY Constants
<1>E. Event("SYNC") \in Events /\ Event("DISCONNECT") \in Events
      /\ Event("FAILED") \in Events /\ Event("ADV_COMPLETE") \in Events
  BY DEF Event, Events, Kinds, NONE
<1>1. ASSUME NEW t \in Tasks, Advertise(t)
      PROVE  Types'
  BY <1>1 DEF Advertise, AdvFields, AdvStart, AdvFlag, Types
<1>2. CASE \/ StartWanted \/ StopWanted \/ StartTest \/ StopTest \/ StopRadio \/ Render
           \/ EndTest \/ Tick \/ Readvertise \/ Leave \/ Ages \/ UNCHANGED vars
           \/ (\E src \in Sources : Choose(src))
  BY <1>2 DEF StartWanted, StopWanted, StartTest, StopTest, StopRadio, Render, EndTest,
              Tick, Readvertise, Leave, Ages, vars, Choose, SrcSet, Types
<1>3. CASE Forget
  BY <1>3 DEF Forget, Types, NONE
<1>4. CASE Terminate \/ LinkDrops
  <2>1. /\ link' \in {link, NONE}
        /\ events' = events \/ events' = Append(events, Event("DISCONNECT"))
        /\ UNCHANGED <<radio, conns, sent, advVars, linkVars, valid, s_bin>>
    BY <1>4 DEF Terminate, LinkDrops, Air
  <2>2. events' \in Seq(Events)
    BY <2>1, <1>E, AppendProperties DEF Types
  <2> QED BY <2>1, <2>2 DEF Types, NONE
<1>5. CASE InitBle
  <2>1. /\ events' = events \/ events' = Append(events, Event("SYNC"))
        /\ UNCHANGED <<radio, link, conns, sent, advVars, linkVars, valid, s_bin>>
    BY <1>5 DEF InitBle
  <2>2. events' \in Seq(Events)
    BY <2>1, <1>E, AppendProperties DEF Types
  <2> QED BY <2>1, <2>2 DEF Types
<1>6. ASSUME NEW kind \in Kinds, Handle(kind)
      PROVE  events' \in Seq(Events) /\ Head(events) \in Events /\ Head(events).conn \in Nat
  <2>1. events \in Seq(Events)
    BY DEF Types
  <2>2. events' \in Seq(Events) /\ Head(events) \in Events
    BY <2>1, <1>6, Handled
  <2> QED BY <2>2 DEF Events
<1>7. CASE OnSync
  BY <1>6, <1>7 DEF OnSync, Kinds, Types
<1>8. CASE OnConnect
  BY <1>6, <1>8 DEF OnConnect, Kinds, Types
<1>9. CASE OnConnectFailed
  BY <1>6, <1>9 DEF OnConnectFailed, Kinds, Types
<1>10. CASE OnDisconnect
  BY <1>6, <1>10 DEF OnDisconnect, LinkGone, Kinds, Types, NONE
<1>11. CASE OnAdvComplete
  BY <1>6, <1>11 DEF OnAdvComplete, Kinds, Types
<1>12. ASSUME NEW n \in 1..FrameSize+1, Write(n)
       PROVE  Types'
  <2>1. /\ s_bin' \in Seq([conn : Nat, pos : Nat]) /\ valid' \in BOOLEAN
    BY <1>12, WriteEffect
  <2>2. /\ sent' = sent + n /\ n \in Nat
        /\ UNCHANGED <<radio, link, conns, events, advVars, linkVars>>
    BY <1>12, <1>F DEF Write
  <2> QED BY <2>1, <2>2 DEF Types
<1>13. CASE PcConnects
  <2>1. /\ events' = Append(events, [kind |-> "CONNECT", conn |-> conns + 1])
        /\ radio' = FALSE /\ conns' = conns + 1 /\ link' = conns + 1 /\ sent' = 0
        /\ UNCHANGED <<advVars, linkVars, valid, s_bin>>
    BY <1>13 DEF PcConnects, Air
  <2>2. [kind |-> "CONNECT", conn |-> conns + 1] \in Events
    BY DEF Types, Events, Kinds
  <2>3. events' \in Seq(Events)
    BY <2>1, <2>2, AppendProperties DEF Types
  <2>4. conns + 1 \in Nat
    BY DEF Types
  <2>5. radio' \in BOOLEAN
    BY <2>1
  <2> QED BY <2>1, <2>3, <2>4, <2>5 DEF Types
<1>14. ASSUME NEW kind \in {"FAILED", "ADV_COMPLETE"}, RunEnds(kind)
       PROVE  Types'
  <2>1. /\ events' = Append(events, Event(kind))
        /\ radio' = FALSE /\ conns' = conns + 1
        /\ UNCHANGED <<link, sent, advVars, linkVars, valid, s_bin>>
    BY <1>14 DEF RunEnds, Air
  <2>2. events' \in Seq(Events)
    BY <2>1, <1>E, AppendProperties DEF Types
  <2>4. conns + 1 \in Nat
    BY DEF Types
  <2>5. radio' \in BOOLEAN
    BY <2>1
  <2> QED BY <2>1, <2>2, <2>4, <2>5 DEF Types
<1> QED BY <1>1, <1>2, <1>3, <1>4, <1>5, <1>7, <1>8, <1>9, <1>10, <1>11, <1>12, <1>13,
           <1>14 DEF Next, UiSteps, HostSteps, Tasks

-----------------------------------------------------------------------------
(* The link: every step keeps LinkInv. *)

\* Nothing the invariant is about changes, except that the radio may stop and
\* that more may be excused.
LEMMA LinkSame ==
  ASSUME Types, LinkInv, UNCHANGED <<link, conns, events, connected, s_conn_handle, valid>>,
         radio' = radio \/ radio' = FALSE, excused \subseteq excused'
  PROVE  LinkInv'
<1>1. Ordered' /\ Numbered' /\ \A k \in Kinds : Pending(k)' <=> Pending(k)
  BY NoNews DEF LinkInv
<1> QED BY <1>1 DEF LinkInv, LinkFacts, Kinds

\* What a task excuses is added to what was.
LEMMA Grows == ASSUME NEW S, Excuse(S) PROVE excused \subseteq excused'
BY DEF Excuse

\* The number of the connection, with a new event.
LEMMA NumberedTold ==
  ASSUME events \in Seq(Events), Numbered, NEW e \in Events, events' = Append(events, e),
         e.kind = "CONNECT" => e.conn = conns' /\ conns' # NONE,
         conns' = conns \/ ~Pending("CONNECT")
  PROVE  Numbered'
<1>1. /\ Len(events) \in Nat /\ Len(events') = Len(events) + 1
      /\ \A i \in 1 .. Len(events) : events'[i] = events[i]
      /\ events'[Len(events) + 1] = e
  BY Told
<1> SUFFICES ASSUME NEW i \in 1 .. Len(events'), events'[i].kind = "CONNECT"
             PROVE  events'[i].conn = conns' /\ conns' # NONE
  BY DEF Numbered
<1>2. CASE i \in 1 .. Len(events)
  BY <1>1, <1>2 DEF Numbered, Pending
<1>3. CASE i = Len(events) + 1
  BY <1>1, <1>3
<1> QED BY <1>1, <1>2, <1>3

\* The number of the connection, without the oldest event.
LEMMA NumberedHandled ==
  ASSUME events \in Seq(Events), Numbered, NEW kind, Handle(kind), conns' = conns
  PROVE  Numbered' /\ (kind = "CONNECT" => Head(events).conn = conns /\ conns # NONE)
<1>1. /\ \A i \in 1 .. Len(events') :
           i + 1 \in 1 .. Len(events) /\ events'[i] = events[i + 1]
      /\ Head(events) = events[1] /\ events[1].kind = kind /\ 1 \in 1 .. Len(events)
  BY Handled
<1> QED BY <1>1 DEF Numbered

\* Every step keeps LinkInv.
LEMMA LinkStep ==
  ASSUME Types, LinkInv, [Next]_vars
  PROVE  LinkInv'
<1> USE DEF airVars, advVars, linkVars, dataVars, initVars, srcVars, pageVars
<1>L. Ordered /\ Numbered /\ LinkFacts /\ events \in Seq(Events)
  BY DEF LinkInv, Types
<1>K. {"CONNECT", "FAILED", "DISCONNECT"} \subseteq Kinds
  BY DEF Kinds
<1>E. /\ Event("SYNC") \in Events /\ Event("DISCONNECT") \in Events
      /\ Event("FAILED") \in Events /\ Event("ADV_COMPLETE") \in Events
      /\ \A kind : Event(kind).kind = kind
  BY DEF Event, Events, Kinds, NONE
<1>1. CASE \/ StartWanted \/ StopWanted \/ StartTest \/ StopTest \/ StopRadio \/ Render
           \/ EndTest \/ Tick \/ Readvertise \/ Leave \/ Ages \/ UNCHANGED vars
           \/ (\E src \in Sources : Choose(src))
           \/ (\E t \in Tasks : AdvFields(t) \/ AdvFlag(t))
  <2>1. /\ UNCHANGED <<link, conns, events, connected, s_conn_handle, valid>>
        /\ radio' = radio \/ radio' = FALSE
    BY <1>1 DEF StartWanted, StopWanted, StartTest, StopTest, StopRadio, Render, EndTest,
                Tick, Readvertise, Leave, Ages, vars, Choose, AdvFields, AdvFlag
  <2>2. excused \subseteq excused'
    BY <1>1, Grows DEF StartWanted, StopWanted, StartTest, StopTest, StopRadio, Render,
                EndTest, Tick, Readvertise, Leave, Ages, vars, Choose, AdvFields, AdvFlag
  <2> QED BY <2>1, <2>2, LinkSame
<1>2. ASSUME NEW t \in Tasks, AdvStart(t)
      PROVE  LinkInv'
  <2>1. UNCHANGED <<link, conns, events, connected, s_conn_handle, valid>>
    BY <1>2 DEF AdvStart
  <2>2. excused \subseteq excused'
    BY <1>2, Grows DEF AdvStart
  <2>3. radio' = radio \/ (MayAdvertise /\ radio' = TRUE)
    BY <1>2 DEF AdvStart
  <2>4. CASE radio' = radio
    BY <2>1, <2>2, <2>4, LinkSame
  <2>5. CASE MayAdvertise
    <3>1. link = NONE /\ ~Pending("DISCONNECT")
      BY <2>5 DEF MayAdvertise, Pending
    <3>2. Ordered' /\ Numbered' /\ \A k \in Kinds : Pending(k)' <=> Pending(k)
      BY <1>L, <2>1, NoNews
    <3> QED BY <1>L, <1>K, <2>1, <2>2, <3>1, <3>2 DEF LinkInv, LinkFacts
  <2> QED BY <2>3, <2>4, <2>5
<1>3. ASSUME link # NONE, link' = NONE, events' = Append(events, Event("DISCONNECT")),
             UNCHANGED <<radio, conns, connected, s_conn_handle, valid, excused>>
      PROVE  LinkInv'
  <2>1. \A k \in Kinds : Pending(k)' <=> Pending(k) \/ k = "DISCONNECT"
    BY <1>3, <1>E, <1>L, Told
  <2>2. ~radio /\ ~Pending("DISCONNECT")
    BY <1>3, <1>L DEF LinkFacts
  <2>3. Ordered'
    <3>1. Event("DISCONNECT").kind = "DISCONNECT" /\ "DISCONNECT" \notin OfRun
      BY <1>E DEF OfRun
    <3> QED BY <1>3, <1>E, <1>L, <2>2, <3>1, ToldInOrder
  <2>4. Numbered'
    BY <1>3, <1>E, <1>L, NumberedTold
  <2>5. LinkFacts'
    BY <1>3, <1>K, <1>L, <2>1, <2>2 DEF LinkFacts
  <2> QED BY <2>3, <2>4, <2>5 DEF LinkInv
<1>4. CASE Terminate
  <2>1. CASE link # NONE /\ link = s_conn_handle
    BY <1>3, <1>4, <2>1 DEF Terminate
  <2>2. CASE ~(link # NONE /\ link = s_conn_handle)
    BY <1>4, <2>2, LinkSame DEF Terminate
  <2> QED BY <2>1, <2>2
<1>5. CASE LinkDrops
  BY <1>3, <1>5 DEF LinkDrops, Air
<1>6. CASE Forget
  <2>1. /\ connected' = FALSE /\ valid' = FALSE /\ s_conn_handle' = NONE
        /\ UNCHANGED <<radio, link, conns, events>>
        /\ excused \subseteq excused' /\ (link # NONE => "ghost" \in excused')
    BY <1>6 DEF Forget, Excuse
  <2>2. Ordered' /\ Numbered' /\ \A k \in Kinds : Pending(k)' <=> Pending(k)
    BY <1>L, <2>1, NoNews
  <2> QED BY <1>K, <1>L, <2>1, <2>2 DEF LinkInv, LinkFacts
<1>7. CASE InitBle
  <2>1. /\ events' = events \/ events' = Append(events, Event("SYNC"))
        /\ UNCHANGED <<radio, link, conns, connected, s_conn_handle, valid>>
    BY <1>7 DEF InitBle
  <2>2. excused \subseteq excused'
    BY <1>7, Grows DEF InitBle
  <2>3. CASE events' = events
    BY <2>1, <2>2, <2>3, LinkSame
  <2>4. CASE events' = Append(events, Event("SYNC"))
    <3>1. \A k \in Kinds : Pending(k)' <=> Pending(k) \/ k = "SYNC"
      BY <1>E, <1>L, <2>4, Told
    <3>2. Ordered'
      <4>1. Event("SYNC").kind = "SYNC" /\ "SYNC" \notin OfRun \cup {"DISCONNECT"}
        BY <1>E DEF OfRun
      <4> QED BY <1>E, <1>L, <2>4, <4>1, ToldInOrder
    <3>3. Numbered'
      BY <1>E, <1>L, <2>1, <2>4, NumberedTold
    <3> QED BY <1>K, <1>L, <2>1, <2>2, <3>1, <3>2, <3>3 DEF LinkInv, LinkFacts
  <2> QED BY <2>1, <2>3, <2>4
<1>8. ASSUME NEW kind \in Kinds, Handle(kind)
      PROVE  /\ Ordered' /\ (conns' = conns => Numbered')
             /\ \A k \in Kinds : Pending(k)' => Pending(k)
             /\ \A k \in Kinds \ {kind} : Pending(k) => Pending(k)'
             /\ Pending(kind)
             /\ kind \in {"CONNECT", "DISCONNECT"} =>
                  ~Pending("CONNECT")' /\ ~Pending("FAILED")'
             /\ kind = "DISCONNECT" => ~Pending("DISCONNECT")'
  BY <1>L, <1>8, Handled, HandledInOrder, NumberedHandled DEF OfRun
<1>9. CASE OnSync \/ OnAdvComplete
  <2>1. UNCHANGED <<radio, link, conns, connected, s_conn_handle, valid>>
    BY <1>9 DEF OnSync, OnAdvComplete
  <2>2. excused \subseteq excused'
    BY <1>9, Grows DEF OnSync, OnAdvComplete, Late
  <2>3. PICK kind \in {"SYNC", "ADV_COMPLETE"} : Handle(kind)
    BY <1>9 DEF OnSync, OnAdvComplete
  <2>4. /\ Ordered' /\ Numbered'
        /\ \A k \in {"CONNECT", "FAILED", "DISCONNECT"} : Pending(k)' <=> Pending(k)
    BY <1>8, <2>1, <2>3 DEF Kinds
  <2> QED BY <1>L, <2>1, <2>2, <2>4 DEF LinkInv, LinkFacts
<1>10. CASE OnConnect
  <2>1. /\ Handle("CONNECT") /\ connected' = TRUE /\ s_conn_handle' = Head(events).conn
        /\ UNCHANGED <<radio, link, conns, valid>>
    BY <1>10 DEF OnConnect
  <2>2. excused \subseteq excused'
    BY <1>10, Grows DEF OnConnect, Late
  <2>3. Head(events).conn = conns /\ conns # NONE
    BY <1>L, <2>1, NumberedHandled
  <2>4. /\ Ordered' /\ Numbered' /\ Pending("CONNECT") /\ ~Pending("CONNECT")'
        /\ ~Pending("FAILED")' /\ (Pending("DISCONNECT")' <=> Pending("DISCONNECT"))
    BY <1>8, <1>K, <2>1
  <2>5. LinkFacts'
    BY <1>L, <2>1, <2>2, <2>3, <2>4 DEF LinkFacts
  <2> QED BY <2>4, <2>5 DEF LinkInv
<1>11. CASE OnConnectFailed
  <2>1. /\ Handle("FAILED") /\ connected' = FALSE
        /\ UNCHANGED <<radio, link, conns, s_conn_handle, valid>>
    BY <1>11 DEF OnConnectFailed
  <2>2. excused \subseteq excused'
    BY <1>11, Grows DEF OnConnectFailed, Late
  <2>3. /\ Ordered' /\ Numbered' /\ Pending("FAILED")
        /\ (Pending("CONNECT")' <=> Pending("CONNECT"))
        /\ (Pending("DISCONNECT")' <=> Pending("DISCONNECT"))
    BY <1>8, <1>K, <2>1
  <2>4. ~connected
    BY <1>L, <2>3 DEF LinkFacts
  <2>5. LinkFacts'
    BY <1>L, <2>1, <2>2, <2>3, <2>4 DEF LinkFacts
  <2> QED BY <2>3, <2>5 DEF LinkInv
<1>12. CASE OnDisconnect
  <2>1. /\ Handle("DISCONNECT")
        /\ connected' = FALSE /\ valid' = FALSE /\ s_conn_handle' = NONE
        /\ UNCHANGED <<radio, link, conns>>
    BY <1>12 DEF OnDisconnect, LinkGone
  <2>2. excused \subseteq excused'
    BY <1>12, Grows DEF OnDisconnect
  <2>3. /\ Ordered' /\ Numbered' /\ Pending("DISCONNECT")
        /\ ~Pending("CONNECT")' /\ ~Pending("FAILED")' /\ ~Pending("DISCONNECT")'
    BY <1>8, <1>K, <2>1
  <2>4. LinkFacts'
    BY <1>L, <2>1, <2>2, <2>3 DEF LinkFacts
  <2> QED BY <2>3, <2>4 DEF LinkInv
<1>13. ASSUME NEW n \in 1..FrameSize+1, Write(n)
       PROVE  LinkInv'
  <2>1. /\ UNCHANGED <<radio, link, conns, events, connected, s_conn_handle>>
        /\ link # NONE /\ events = << >>
    BY <1>13 DEF Write
  <2>2. excused \subseteq excused'
    BY <1>13, Grows DEF Write
  <2>3. Ordered' /\ Numbered' /\ \A k \in Kinds : Pending(k)' <=> Pending(k)
    BY <1>L, <2>1, NoNews
  <2>4. \A k \in Kinds : ~Pending(k)
    BY <2>1 DEF Pending
  <2> QED BY <1>K, <1>L, <2>1, <2>2, <2>3, <2>4 DEF LinkInv, LinkFacts
<1>14. ASSUME radio, radio' = FALSE, conns' = conns + 1,
              NEW e \in Events, events' = Append(events, e), e.kind \in OfRun,
              e.kind = "CONNECT" => e.conn = conns',
              \/ link' = link /\ e.kind # "CONNECT"
              \/ link' = conns' /\ e.kind = "CONNECT",
              UNCHANGED <<connected, s_conn_handle, valid, excused>>
       PROVE  LinkInv'
  <2>1. \A k \in Kinds : Pending(k)' <=> Pending(k) \/ k = e.kind
    BY <1>14, <1>L, Told
  <2>2. /\ link = NONE /\ ~connected /\ ~valid
        /\ ~Pending("CONNECT") /\ ~Pending("DISCONNECT")
    BY <1>14, Searching
  <2>3. Ordered'
    BY <1>14, <1>L, <2>2, ToldInOrder
  <2>4. conns' # NONE
    BY <1>14 DEF Types, NONE
  <2>5. Numbered'
    BY <1>14, <1>L, <2>2, <2>4, NumberedTold
  <2>6. ~Pending("DISCONNECT")' /\ (Pending("CONNECT")' <=> e.kind = "CONNECT")
    BY <1>14, <1>K, <2>1, <2>2 DEF OfRun
  <2>7. LinkFacts'
    BY <1>14, <1>K, <1>L, <2>2, <2>4, <2>6 DEF LinkFacts
  <2> QED BY <2>3, <2>5, <2>7 DEF LinkInv
<1>15. CASE PcConnects
  <2> DEFINE e == [kind |-> "CONNECT", conn |-> conns + 1]
  <2>1. e \in Events /\ e.kind = "CONNECT" /\ e.conn = conns + 1
    BY DEF Types, Events, Kinds
  <2>2. /\ radio /\ radio' = FALSE /\ conns' = conns + 1 /\ link' = conns + 1
        /\ events' = Append(events, e)
        /\ UNCHANGED <<connected, s_conn_handle, valid, excused>>
    BY <1>15 DEF PcConnects, Air
  <2> HIDE DEF e
  <2> QED BY <1>14, <2>1, <2>2 DEF OfRun
<1>16. ASSUME NEW kind \in {"FAILED", "ADV_COMPLETE"}, RunEnds(kind)
       PROVE  LinkInv'
  <2>1. /\ radio /\ radio' = FALSE /\ conns' = conns + 1 /\ link' = link
        /\ events' = Append(events, Event(kind))
        /\ UNCHANGED <<connected, s_conn_handle, valid, excused>>
    BY <1>16 DEF RunEnds, Air
  <2>2. /\ Event(kind) \in Events /\ Event(kind).kind \in OfRun
        /\ Event(kind).kind # "CONNECT"
    BY <1>E DEF OfRun
  <2> QED BY <1>14, <2>1, <2>2
<1> QED BY <1>1, <1>2, <1>4, <1>5, <1>6, <1>7, <1>9, <1>10, <1>11, <1>12, <1>13, <1>15, <1>16
           DEF Next, UiSteps, HostSteps, Advertise, Tasks

-----------------------------------------------------------------------------
(* The frames. *)

\* Until something was cut, what the buffer holds are the last bytes of the
\* link, from the start of a frame on; the sample of a link is a frame of it.
FrameInv ==
  "cut" \notin excused =>
    /\ link = NONE /\ ~Pending("DISCONNECT") => s_bin = << >>
    /\ link # NONE =>
         /\ Len(s_bin) < FrameSize /\ Len(s_bin) <= sent
         /\ (sent - Len(s_bin)) % FrameSize = 0
         /\ \A i \in 1 .. Len(s_bin) :
              s_bin[i] = [conn |-> link, pos |-> sent - Len(s_bin) + i - 1]
    /\ valid => Whole(sample, conns)
    /\ shown # NoSample => Whole(shown, shown[1].conn)

\* A frame after the start of a frame, the next one starts.
LEMMA NextFrame ==
  ASSUME NEW F \in Nat \ {0}, NEW a \in Int, a % F = 0
  PROVE  (a + F) % F = 0
<1> DEFINE p == a \div F
           q == (a + F) \div F
           s == (a + F) % F
<1>1. /\ a = F * p /\ p \in Int
      /\ a + F = F * q + s /\ q \in Int /\ s \in 0 .. F - 1
  <2>1. \A b \in Int : /\ b \div F \in Int /\ b % F \in 0 .. F - 1
                       /\ b = F * (b \div F) + (b % F)
    BY SMT
  <2>2. a + F \in Int
    OBVIOUS
  <2>3. F * p + 0 = F * p
    BY <2>1
  <2> QED BY <2>1, <2>2, <2>3
<1> HIDE DEF p, q, s
<1> DEFINE k == p + 1 - q
<1>2. s = F * k /\ k \in Int
  BY <1>1
<1> HIDE DEF k
<1>3. CASE k >= 1
  <2>1. F * k >= F * 1
    BY <1>2, <1>3
  <2> QED BY <1>1, <1>2, <2>1
<1>4. CASE k <= -1
  <2>1. F * k <= F * (-1)
    BY <1>2, <1>4
  <2> QED BY <1>1, <1>2, <2>1
<1>5. CASE k = 0
  BY <1>1, <1>2, <1>5 DEF s
<1> QED BY <1>2, <1>3, <1>4, <1>5

\* Nothing the invariant is about changes.
LEMMA FrameSame ==
  ASSUME FrameInv,
         UNCHANGED <<link, conns, sent, events, s_bin, sample>>,
         valid' => valid, shown' = shown \/ shown' = NoSample,
         excused \subseteq excused'
  PROVE  FrameInv'
<1>1. Pending("DISCONNECT")' <=> Pending("DISCONNECT")
  BY NoNews DEF Kinds
<1> QED BY <1>1 DEF FrameInv, Whole

\* A write keeps the buffer in step with the PC.
LEMMA FrameWrite ==
  ASSUME Types, LinkInv, FrameInv, NEW n \in 1 .. FrameSize + 1, Write(n)
  PROVE  FrameInv'
<1> USE DEF airVars, advVars, linkVars, dataVars, initVars, srcVars, pageVars
<1>1. PICK kept \in 1 .. FrameSize, fed \in Seq([conn : Nat, pos : Nat]) :
        /\ kept <= n /\ (kept < n => "cut" \in excused')
        /\ Len(fed) = Len(s_bin) + kept
        /\ \A i \in 1 .. Len(s_bin) : fed[i] = s_bin[i]
        /\ \A i \in Len(s_bin) + 1 .. Len(s_bin) + kept :
             fed[i] = [conn |-> link, pos |-> sent + i - Len(s_bin) - 1]
        /\ IF Len(fed) >= FrameSize
           THEN /\ Len(s_bin') = Len(fed) - FrameSize
                /\ \A i \in 1 .. Len(s_bin') : s_bin'[i] = fed[FrameSize + i]
           ELSE s_bin' = fed
        /\ \/ UNCHANGED <<sample, valid>>
           \/ /\ Len(fed) >= FrameSize /\ fed[1].pos % FrameSize = 0
              /\ valid' = TRUE
              /\ \A i \in 1 .. FrameSize : sample'[i] = fed[i]
  BY WriteEffect
<1> SUFFICES ASSUME "cut" \notin excused'
             PROVE  /\ link' = NONE /\ ~Pending("DISCONNECT")' => s_bin' = << >>
                    /\ link' # NONE =>
                         /\ Len(s_bin') < FrameSize /\ Len(s_bin') <= sent'
                         /\ (sent' - Len(s_bin')) % FrameSize = 0
                         /\ \A i \in 1 .. Len(s_bin') :
                              s_bin'[i] = [conn |-> link',
                                           pos |-> sent' - Len(s_bin') + i - 1]
                    /\ valid' => Whole(sample', conns')
                    /\ shown' # NoSample => Whole(shown', shown'[1].conn)
  BY DEF FrameInv, Whole
<1>2. /\ FrameSize \in Nat \ {0} /\ sent \in Nat /\ Len(s_bin) \in Nat /\ n \in Nat
      /\ s_bin \in Seq([conn : Nat, pos : Nat])
  BY Constants DEF Types
<1>3. /\ link # NONE /\ link' = link /\ conns' = conns /\ sent' = sent + n
      /\ shown' = shown /\ link = conns
  BY DEF Write, LinkInv, LinkFacts
<1>4. "cut" \notin excused /\ kept = n
  <2>1. excused \subseteq excused'
    BY Grows DEF Write
  <2>2. ~(kept < n)
    BY <1>1
  <2> QED BY <1>1, <1>2, <2>1, <2>2
<1> DEFINE base == sent - Len(s_bin)
<1>5. /\ Len(s_bin) < FrameSize /\ base \in Nat /\ base % FrameSize = 0
      /\ \A i \in 1 .. Len(s_bin) : s_bin[i] = [conn |-> link, pos |-> base + i - 1]
      /\ valid => Whole(sample, conns)
      /\ shown # NoSample => Whole(shown, shown[1].conn)
  BY <1>2, <1>3, <1>4 DEF FrameInv
<1>6. base = sent - Len(s_bin)
  OBVIOUS
<1> HIDE DEF base
<1>7. Len(fed) \in Nat /\ Len(fed) = Len(s_bin) + n
  BY <1>1, <1>2, <1>4
<1>8. \A i \in 1 .. Len(fed) : fed[i] = [conn |-> link, pos |-> base + i - 1]
  <2> SUFFICES ASSUME NEW i \in 1 .. Len(fed)
               PROVE  fed[i] = [conn |-> link, pos |-> base + i - 1]
    OBVIOUS
  <2>1. CASE i \in 1 .. Len(s_bin)
    BY <1>1, <1>5, <2>1
  <2>2. CASE i \in Len(s_bin) + 1 .. Len(s_bin) + kept
    <3>1. sent + i - Len(s_bin) - 1 = base + i - 1
      BY <1>2, <1>6, <2>2
    <3> QED BY <1>1, <2>2, <3>1
  <2> QED BY <1>2, <1>4, <1>7, <2>1, <2>2
<1>9. /\ Len(s_bin') < FrameSize /\ Len(s_bin') <= sent'
      /\ (sent' - Len(s_bin')) % FrameSize = 0
      /\ \A i \in 1 .. Len(s_bin') :
           s_bin'[i] = [conn |-> link', pos |-> sent' - Len(s_bin') + i - 1]
  <2>1. CASE Len(fed) >= FrameSize
    <3>1. /\ Len(s_bin') = Len(fed) - FrameSize
          /\ \A i \in 1 .. Len(s_bin') : s_bin'[i] = fed[FrameSize + i]
      BY <1>1, <2>1
    <3>2. /\ sent' - Len(s_bin') = base + FrameSize
          /\ Len(s_bin') < FrameSize /\ Len(s_bin') <= sent' /\ Len(s_bin') \in Nat
      BY <1>1, <1>2, <1>3, <1>4, <1>5, <1>6, <1>7, <2>1, <3>1
    <3>3. (base + FrameSize) % FrameSize = 0
      <4>1. base \in Int
        BY <1>5
      <4> QED BY <1>2, <1>5, <4>1, NextFrame
    <3>4. ASSUME NEW i \in 1 .. Len(s_bin')
          PROVE  s_bin'[i] = [conn |-> link', pos |-> sent' - Len(s_bin') + i - 1]
      <4>1. /\ FrameSize + i \in 1 .. Len(fed)
            /\ base + (FrameSize + i) - 1 = (base + FrameSize) + i - 1
        BY <1>2, <1>5, <1>7, <2>1, <3>1, <3>2
      <4> QED BY <1>3, <1>8, <3>1, <3>2, <4>1
    <3> QED BY <3>2, <3>3, <3>4
  <2>2. CASE ~(Len(fed) >= FrameSize)
    <3>1. s_bin' = fed
      BY <1>1, <2>2
    <3>2. /\ sent' - Len(s_bin') = base
          /\ Len(s_bin') < FrameSize /\ Len(s_bin') <= sent'
      <4>1. Len(s_bin') = Len(s_bin) + n /\ Len(s_bin') < FrameSize
        BY <1>2, <1>7, <2>2, <3>1
      <4>2. sent' = sent + n
        BY <1>3
      <4> QED BY <1>2, <1>5, <1>6, <4>1, <4>2
    <3> QED BY <1>3, <1>5, <1>8, <3>1, <3>2
  <2> QED BY <2>1, <2>2
<1>10. valid' => Whole(sample', conns')
  <2>1. CASE UNCHANGED <<sample, valid>>
    BY <1>3, <1>5, <2>1 DEF Whole
  <2>2. CASE /\ Len(fed) >= FrameSize /\ fed[1].pos % FrameSize = 0
             /\ valid' = TRUE
             /\ \A i \in 1 .. FrameSize : sample'[i] = fed[i]
    <3>1. \A i \in 1 .. FrameSize :
            sample'[i] = [conn |-> conns, pos |-> base + i - 1]
      <4> SUFFICES ASSUME NEW i \in 1 .. FrameSize
                   PROVE  sample'[i] = [conn |-> conns, pos |-> base + i - 1]
        OBVIOUS
      <4>1. i \in 1 .. Len(fed)
        BY <1>2, <1>7, <2>2
      <4> QED BY <1>3, <1>8, <2>2, <4>1
    <3>2. sample'[1].pos = base
      <4>1. 1 \in 1 .. FrameSize /\ base + 1 - 1 = base
        BY <1>2, <1>5
      <4>2. sample'[1] = [conn |-> conns, pos |-> base]
        BY <3>1, <4>1
      <4> QED BY <4>2
    <3> QED BY <1>3, <1>5, <3>1, <3>2 DEF Whole
  <2> QED BY <1>1, <2>1, <2>2
<1> QED BY <1>3, <1>5, <1>9, <1>10

\* A frame of a connection says of which.
LEMMA OwnFrame ==
  ASSUME NEW f, NEW c, Whole(f, c)
  PROVE  f[1].conn = c /\ Whole(f, f[1].conn)
<1>1. 1 \in 1 .. FrameSize
  BY Constants
<1>2. f[1].conn = c
  <2>1. f[1] = [conn |-> c, pos |-> f[1].pos + 1 - 1]
    BY <1>1 DEF Whole
  <2>2. [conn |-> c, pos |-> f[1].pos + 1 - 1].conn = c
    OBVIOUS
  <2> QED BY <2>1, <2>2
<1> QED BY <1>2

\* Every step keeps FrameInv.
LEMMA FrameStep ==
  ASSUME Types, LinkInv, FrameInv, [Next]_vars
  PROVE  FrameInv'
<1> USE DEF airVars, advVars, linkVars, dataVars, initVars, srcVars, pageVars
<1>E. /\ Event("SYNC") \in Events /\ Event("DISCONNECT") \in Events
      /\ Event("FAILED") \in Events /\ Event("ADV_COMPLETE") \in Events
      /\ \A kind : Event(kind).kind = kind
  BY DEF Event, Events, Kinds, NONE
<1>T. events \in Seq(Events) /\ FrameSize \in Nat \ {0}
  BY Constants DEF Types
<1>1. CASE \/ StartWanted \/ StopWanted \/ StartTest \/ StopTest \/ StopRadio
           \/ EndTest \/ Tick \/ Readvertise \/ Leave \/ Ages \/ UNCHANGED vars
           \/ Forget
           \/ (\E src \in Sources : Choose(src))
           \/ (\E t \in Tasks : AdvFields(t) \/ AdvFlag(t) \/ AdvStart(t))
  <2>1. /\ UNCHANGED <<link, conns, sent, events, s_bin, sample, shown>>
        /\ valid' = valid \/ valid' = FALSE
    BY <1>1 DEF StartWanted, StopWanted, StartTest, StopTest, StopRadio, EndTest,
                Tick, Readvertise, Leave, Ages, vars, Choose, AdvFields, AdvFlag, AdvStart,
                Forget
  <2>2. excused \subseteq excused'
    BY <1>1, Grows DEF StartWanted, StopWanted, StartTest, StopTest, StopRadio,
                EndTest, Tick, Readvertise, Leave, Ages, vars, Choose, AdvFields, AdvFlag,
                AdvStart, Forget
  <2> QED BY <2>1, <2>2, FrameSame
<1>2. CASE Render
  <2>1. /\ UNCHANGED <<link, conns, sent, events, s_bin, sample, valid, excused>>
        /\ shown' = IF s_src = "BLE" /\ Fresh THEN sample ELSE NoSample
    BY <1>2 DEF Render, Rows
  <2>2. CASE s_src = "BLE" /\ Fresh
    <3>1. shown' = sample /\ valid
      BY <2>1, <2>2 DEF Fresh
    <3>2. Whole(sample, conns) => Whole(sample, sample[1].conn)
      BY OwnFrame
    <3>3. Pending("DISCONNECT")' <=> Pending("DISCONNECT")
      BY <2>1, NoNews DEF Kinds
    <3> QED BY <2>1, <3>1, <3>2, <3>3 DEF FrameInv, Whole
  <2>3. CASE ~(s_src = "BLE" /\ Fresh)
    BY <2>1, <2>3, FrameSame
  <2> QED BY <2>2, <2>3
<1>3. CASE Terminate \/ LinkDrops
  <2>1. /\ \/ UNCHANGED <<link, events>>
           \/ link' = NONE /\ events' = Append(events, Event("DISCONNECT"))
        /\ UNCHANGED <<conns, sent, s_bin, sample, valid, shown, excused>>
    BY <1>3 DEF Terminate, LinkDrops, Air
  <2>2. CASE UNCHANGED <<link, events>>
    BY <2>1, <2>2, FrameSame
  <2>3. CASE link' = NONE /\ events' = Append(events, Event("DISCONNECT"))
    <3>1. Pending("DISCONNECT")'
      BY <1>E, <1>T, <2>3, Told DEF Kinds
    <3> QED BY <2>1, <2>3, <3>1 DEF FrameInv, Whole
  <2> QED BY <2>1, <2>2, <2>3
<1>4. CASE InitBle
  <2>1. /\ events' = events \/ events' = Append(events, Event("SYNC"))
        /\ UNCHANGED <<link, conns, sent, s_bin, sample, valid, shown>>
    BY <1>4 DEF InitBle
  <2>2. excused \subseteq excused'
    BY <1>4, Grows DEF InitBle
  <2>3. CASE events' = events
    BY <2>1, <2>2, <2>3, FrameSame
  <2>4. CASE events' = Append(events, Event("SYNC"))
    <3>1. Pending("DISCONNECT")' <=> Pending("DISCONNECT")
      BY <1>E, <1>T, <2>4, Told DEF Kinds
    <3> QED BY <2>1, <2>2, <3>1 DEF FrameInv, Whole
  <2> QED BY <2>1, <2>3, <2>4
<1>5. CASE OnSync \/ OnConnect \/ OnConnectFailed \/ OnAdvComplete
  <2>1. UNCHANGED <<link, conns, sent, s_bin, sample, valid, shown>>
    BY <1>5 DEF OnSync, OnConnect, OnConnectFailed, OnAdvComplete
  <2>2. excused \subseteq excused'
    BY <1>5, Grows DEF OnSync, OnConnect, OnConnectFailed, OnAdvComplete, Late
  <2>3. PICK kind \in Kinds \ {"DISCONNECT"} : Handle(kind)
    BY <1>5 DEF OnSync, OnConnect, OnConnectFailed, OnAdvComplete, Kinds
  <2>4. Pending("DISCONNECT")' <=> Pending("DISCONNECT")
    BY <1>T, <2>3, Handled DEF Kinds
  <2> QED BY <2>1, <2>2, <2>4 DEF FrameInv, Whole
<1>6. CASE OnDisconnect
  <2>1. /\ Handle("DISCONNECT") /\ valid' = FALSE
        /\ UNCHANGED <<link, conns, sent, s_bin, sample, shown>>
        /\ excused \subseteq excused' /\ (s_bin # << >> => "cut" \in excused')
    BY <1>6 DEF OnDisconnect, LinkGone, Excuse
  <2>2. link = NONE
    BY <1>T, <2>1, Handled DEF LinkInv, LinkFacts
  <2> QED BY <2>1, <2>2 DEF FrameInv, Whole
<1>7. ASSUME NEW n \in 1..FrameSize+1, Write(n)
      PROVE  FrameInv'
  BY <1>7, FrameWrite
<1>8. CASE PcConnects
  <2>1. /\ radio /\ sent' = 0 /\ link' # NONE
        /\ UNCHANGED <<s_bin, sample, valid, shown, excused>>
    BY <1>8 DEF PcConnects, Air, Types, NONE
  <2>2. link = NONE /\ ~valid /\ ~Pending("DISCONNECT")
    BY <2>1, Searching
  <2> SUFFICES ASSUME "cut" \notin excused'
               PROVE  FrameInv'
    BY DEF FrameInv
  <2>3. s_bin' = << >> /\ Len(s_bin') = 0
    BY <2>1, <2>2 DEF FrameInv
  <2>4. (sent' - Len(s_bin')) % FrameSize = 0
    <3>1. sent' - Len(s_bin') = 0
      <4>1. sent' = 0
        BY <2>1
      <4>2. Len(s_bin') = 0
        BY <2>3
      <4> QED BY <4>1, <4>2
    <3>2. 0 % FrameSize = 0
      BY <1>T, SMT
    <3> QED BY <3>1, <3>2
  <2>5. /\ Len(s_bin') < FrameSize /\ Len(s_bin') <= sent'
        /\ \A i \in 1 .. Len(s_bin') :
             s_bin'[i] = [conn |-> link', pos |-> sent' - Len(s_bin') + i - 1]
    BY <1>T, <2>1, <2>3
  <2> QED BY <2>1, <2>2, <2>4, <2>5 DEF FrameInv, Whole
<1>9. ASSUME NEW kind \in {"FAILED", "ADV_COMPLETE"}, RunEnds(kind)
      PROVE  FrameInv'
  <2>1. /\ radio /\ events' = Append(events, Event(kind))
        /\ UNCHANGED <<link, sent, s_bin, sample, valid, shown, excused>>
    BY <1>9 DEF RunEnds, Air
  <2>2. link = NONE /\ ~valid /\ ~Pending("DISCONNECT")
    BY <2>1, Searching
  <2> QED BY <2>1, <2>2 DEF FrameInv, Whole
<1> QED BY <1>1, <1>2, <1>3, <1>4, <1>5, <1>6, <1>7, <1>8, <1>9
           DEF Next, UiSteps, HostSteps, Advertise, Tasks

-----------------------------------------------------------------------------
(* The advertising. *)

\* Until the host is synced nothing advertises, and nothing but that is on its
\* way; the stack is started once.
BootInv ==
  /\ ~s_host_synced =>
       /\ ~radio /\ ~s_advertising /\ link = NONE
       /\ todo["host"] = << >> /\ At("ui") \notin Active
       /\ \A k \in Kinds \ {"SYNC"} : ~Pending(k)
  /\ ~s_init_done => ~s_host_synced /\ events = << >>
  /\ Len(events) <= 1 \/ s_host_synced
  /\ s_host_synced => ~Pending("SYNC")

Clean == "race" \notin excused /\ "fault" \notin excused

RunTold == \E k \in OfRun : Pending(k)

\* Where the flag and the radio may differ, and what the tasks are then about
\* to do; until two of them met or the stack refused a call.
AdvFacts ==
  /\ ~(At("ui") \in Active /\ At("host") \in Active \cup {"wanted"})
  /\ At("host") \in {"wanted", "advertise", "adv_start", "adv_off"} => ~radio
  /\ At("ui") \in {"advertise", "adv_start", "adv_off"} => ~radio
  /\ At("ui") \in Active => ~s_advertising
  /\ radio /\ ~s_advertising =>
       At("ui") \in {"adv_on", "adv_stop"} \/ At("host") = "adv_on"
  /\ s_advertising /\ ~radio =>
       RunTold \/ At("host") \in {"wanted", "advertise", "adv_start", "adv_off"}
  /\ ~s_adv_wanted =>
       /\ s_advertising \/ At("host") \in {"advertise", "adv_start", "adv_on"} =>
            At("ui") = "stop_test"
       /\ At("ui") \notin {"start_test", "advertise", "adv_start", "adv_on"}

AdvInv == Clean => AdvFacts

\* A step that excuses nothing of it had nothing to excuse.
LEMMA StillClean == ASSUME excused \subseteq excused', Clean' PROVE Clean
BY DEF Clean

\* A task that met none is alone with the radio.
LEMMA Alone ==
  ASSUME NEW t \in Tasks, NEW S, Excuse(Meets(t) \cup S), Clean'
  PROVE  /\ \A o \in Tasks \ {t} : At(o) \notin AdvSteps
         /\ "race" \notin S /\ "fault" \notin S
<1>1. "race" \notin Meets(t) /\ "race" \notin S /\ "fault" \notin S
  BY DEF Excuse, Clean
<1>2. ASSUME NEW o \in Tasks \ {t}, At(o) \in AdvSteps
      PROVE  FALSE
  <2>1. todo[o] # << >> /\ Head(todo[o]) \in AdvSteps
    BY <1>2 DEF At, AdvSteps
  <2> QED BY <1>1, <2>1 DEF Meets
<1> QED BY <1>1, <1>2

\* Nothing the invariant is about changes, and no task begins to advertise.
LEMMA BootSame ==
  ASSUME BootInv,
         UNCHANGED <<radio, s_advertising, link, s_host_synced, events>>,
         s_init_done' = s_init_done \/ s_init_done' = TRUE,
         At("host")' = At("host"), todo'["host"] = todo["host"],
         At("ui")' \notin Active \/ At("ui") \in Active
  PROVE  BootInv'
<1>1. \A k \in Kinds : Pending(k)' <=> Pending(k)
  BY NoNews
<1> QED BY <1>1 DEF BootInv, Kinds

\* Once it is, the invariant is about what it was told.
LEMMA Synced ==
  ASSUME BootInv, s_host_synced, s_host_synced', s_init_done' = s_init_done,
         ~Pending("SYNC")'
  PROVE  BootInv'
BY DEF BootInv

\* Every step keeps BootInv.
LEMMA BootStep ==
  ASSUME Types, TodoInv, BootInv, [Next]_vars
  PROVE  BootInv'
<1> USE DEF airVars, advVars, linkVars, dataVars, initVars, srcVars, pageVars
<1>T. "ui" \in Tasks /\ "host" \in Tasks /\ "ui" # "host" /\ events \in Seq(Events)
  BY DEF Tasks, Types
<1>O. {"adv_start", "adv_on", "adv_off", "start_test", "stop_test", "advertise", "adv_stop"}
        \subseteq Ops
  BY DEF Ops, AdvSteps
<1>E. /\ Event("SYNC") \in Events /\ Event("DISCONNECT") \in Events
      /\ Event("FAILED") \in Events /\ Event("ADV_COMPLETE") \in Events
      /\ \A kind : Event(kind).kind = kind
  BY DEF Event, Events, Kinds, NONE
<1>A. \A op \in Later \cup {"none", "terminate", "init", "start_test", "stop_test"} :
        op \notin Active
  BY DEF Later, Active
\* Without the sync neither task is advertising.
<1>1. ASSUME NEW t \in Tasks, Advertise(t)
      PROVE  BootInv'
  <2>1. At(t) \in Active /\ todo[t] # << >>
    <3>1. \/ Step(t, "advertise", <<"adv_start">>) \/ Step(t, "advertise", << >>)
          \/ Step(t, "adv_start", <<"adv_on">>) \/ Step(t, "adv_start", <<"adv_off">>)
          \/ Step(t, "adv_on", << >>) \/ Step(t, "adv_off", << >>)
      BY <1>1 DEF Advertise, AdvFields, AdvStart, AdvFlag
    <3> QED BY <3>1, <1>O, StepOne, StepNone DEF Active
  <2>2. s_host_synced
    BY <2>1 DEF BootInv, Tasks
  <2>3. UNCHANGED <<s_host_synced, s_init_done, events>>
    BY <1>1 DEF Advertise, AdvFields, AdvStart, AdvFlag
  <2>4. ~Pending("SYNC")'
    BY <2>2, <2>3 DEF BootInv, Pending
  <2> QED BY <2>2, <2>3, <2>4, Synced
<1>2. CASE StartWanted \/ StopWanted \/ Render \/ Forget
  <2>1. \/ Step("ui", "start", <<"start_test">>) \/ Step("ui", "stop", <<"stop_test">>)
        \/ Step("ui", "render", << >>) \/ Step("ui", "forget", << >>)
    BY <1>2 DEF StartWanted, StopWanted, Render, Forget
  <2>2. /\ At("ui")' \in Later \cup {"none", "start_test", "stop_test"}
        /\ At("host")' = At("host") /\ todo'["host"] = todo["host"]
    BY <1>O, <1>T, <2>1, StepOne, StepNone
  <2>3. UNCHANGED <<radio, s_advertising, link, s_host_synced, events, s_init_done>>
    BY <1>2 DEF StartWanted, StopWanted, Render, Forget
  <2> QED BY <1>A, <2>2, <2>3, BootSame
<1>3. CASE EndTest
  <2>1. UNCHANGED <<radio, s_advertising, link, s_host_synced, events, s_init_done>>
    BY <1>3 DEF EndTest
  <2> QED BY <1>3, <1>A, <2>1, EndTestEffect, BootSame
<1>4. CASE Tick
  <2>1. UNCHANGED <<radio, s_advertising, link, s_host_synced, events, s_init_done>>
    BY <1>4 DEF Tick
  <2>2. At("ui")' \notin Active
    BY <1>4, <1>A, TickEffect DEF Later
  <2> QED BY <1>4, <2>1, <2>2, TickEffect, BootSame
<1>5. CASE StartTest
  <2>1. UNCHANGED <<radio, s_advertising, link, s_host_synced, events, s_init_done>>
    BY <1>5 DEF StartTest
  <2>2. CASE s_host_synced
    <3>1. ~Pending("SYNC")'
      BY <2>1, <2>2 DEF BootInv, Pending
    <3> QED BY <2>1, <2>2, <3>1, Synced
  <2>3. CASE ~s_host_synced
    <3>1. Step("ui", "start_test", << >>)
      BY <1>5, <2>3 DEF StartTest
    <3>2. /\ At("ui")' \in Later \cup {"none"}
          /\ At("host")' = At("host") /\ todo'["host"] = todo["host"]
      BY <1>T, <3>1, StepNone
    <3> QED BY <1>A, <2>1, <3>2, BootSame
  <2> QED BY <2>2, <2>3
<1>6. CASE StopTest
  <2>1. /\ UNCHANGED <<radio, link, s_host_synced, events, s_init_done>>
        /\ s_advertising' = FALSE
    BY <1>6 DEF StopTest
  <2>2. CASE s_host_synced
    <3>1. ~Pending("SYNC")'
      BY <2>1, <2>2 DEF BootInv, Pending
    <3> QED BY <2>1, <2>2, <3>1, Synced
  <2>3. CASE ~s_host_synced
    <3>1. ~s_advertising
      BY <2>3 DEF BootInv
    <3>2. Step("ui", "stop_test", << >>)
      BY <1>6, <3>1 DEF StopTest
    <3>3. /\ At("ui")' \in Later \cup {"none"}
          /\ At("host")' = At("host") /\ todo'["host"] = todo["host"]
      BY <1>T, <3>2, StepNone
    <3>4. s_advertising' = s_advertising
      BY <2>1, <3>1 DEF Types
    <3> QED BY <1>A, <2>1, <3>3, <3>4, BootSame
  <2> QED BY <2>2, <2>3
<1>7. CASE StopRadio
  <2>1. Step("ui", "adv_stop", << >>) /\ UNCHANGED <<s_host_synced, events, s_init_done>>
    BY <1>7 DEF StopRadio
  <2>2. At("ui") \in Active
    BY <1>T, <2>1, StepNone DEF Active
  <2>3. s_host_synced /\ ~Pending("SYNC")'
    BY <2>1, <2>2 DEF BootInv, Pending
  <2> QED BY <2>1, <2>3, Synced
<1>8. ASSUME link # NONE, events' = Append(events, Event("DISCONNECT")),
             UNCHANGED <<s_host_synced, s_init_done>>
      PROVE  BootInv'
  <2>1. s_host_synced
    BY <1>8 DEF BootInv
  <2>2. ~Pending("SYNC")'
    BY <1>8, <1>E, <1>T, <2>1, Told DEF BootInv, Kinds
  <2> QED BY <1>8, <2>1, <2>2, Synced
<1>9. CASE Terminate
  <2>1. CASE link # NONE /\ link = s_conn_handle
    BY <1>8, <1>9, <2>1 DEF Terminate
  <2>2. CASE ~(link # NONE /\ link = s_conn_handle)
    <3>1. UNCHANGED <<radio, s_advertising, link, s_host_synced, events, s_init_done>>
      BY <1>9, <2>2 DEF Terminate
    <3>2. /\ At("ui")' \in Later \cup {"none"}
          /\ At("host")' = At("host") /\ todo'["host"] = todo["host"]
      BY <1>9, <1>T, StepNone DEF Terminate
    <3> QED BY <1>A, <3>1, <3>2, BootSame
  <2> QED BY <2>1, <2>2
<1>10. CASE LinkDrops
  BY <1>8, <1>10 DEF LinkDrops, Air
<1>11. CASE InitBle
  <2>1. /\ UNCHANGED <<radio, s_advertising, link, s_host_synced>> /\ s_init_done' = TRUE
        /\ \/ events' = events
           \/ ~s_init_done /\ events' = Append(events, Event("SYNC"))
    BY <1>11 DEF InitBle
  <2>2. /\ At("ui")' \in Later \cup {"none"}
        /\ At("host")' = At("host") /\ todo'["host"] = todo["host"]
    BY <1>11, <1>T, StepNone DEF InitBle
  <2>3. CASE events' = events
    BY <1>A, <2>1, <2>2, <2>3, BootSame
  <2>4. CASE ~s_init_done /\ events' = Append(events, Event("SYNC"))
    <3>1. ~s_host_synced /\ events = << >>
      BY <2>4 DEF BootInv
    <3>2. /\ Len(events') = Len(events) + 1 /\ Len(events) = 0
          /\ \A k \in Kinds : Pending(k)' <=> Pending(k) \/ k = "SYNC"
      BY <1>E, <1>T, <2>4, <3>1, Told
    <3>3. Len(events') <= 1
      BY <3>2
    <3> QED BY <1>A, <2>1, <2>2, <3>1, <3>2, <3>3 DEF BootInv
  <2> QED BY <2>1, <2>3, <2>4
<1>12. CASE Readvertise
  <2>1. UNCHANGED <<s_host_synced, events, s_init_done>> /\ todo["host"] # << >>
    BY <1>12 DEF Readvertise, Step
  <2>2. s_host_synced /\ ~Pending("SYNC")'
    BY <2>1 DEF BootInv, Pending
  <2> QED BY <2>1, <2>2, Synced
<1>13. CASE OnSync
  <2>1. Handle("SYNC") /\ UNCHANGED <<radio, link, s_init_done, s_advertising>>
    BY <1>13 DEF OnSync
  <2>2. Pending("SYNC") /\ ~s_host_synced /\ Len(events) = 1
    <3>1. Pending("SYNC") /\ Len(events) \in Nat \ {0}
      BY <1>T, <2>1, Handled
    <3>2. ~s_host_synced /\ Len(events) <= 1
      BY <3>1 DEF BootInv
    <3> QED BY <3>1, <3>2
  <2>3. /\ Len(events') = 0
        /\ \A k \in Kinds : ~Pending(k)'
    BY <1>T, <2>1, <2>2, Handled DEF Pending
  <2>4. s_init_done
    BY <1>T, <2>1, Handled DEF BootInv
  <2>5. CASE s_host_synced' = TRUE
    BY <2>1, <2>3, <2>4, <2>5 DEF BootInv, Kinds
  <2>6. CASE UNCHANGED <<s_host_synced, todo>>
    <3>1. At("ui")' = At("ui")
      BY <2>6 DEF At
    <3> QED BY <2>1, <2>2, <2>3, <2>4, <2>6, <3>1 DEF BootInv
  <2> QED BY <1>13, <2>5, <2>6 DEF OnSync
<1>14. CASE OnConnect \/ OnConnectFailed \/ OnDisconnect \/ OnAdvComplete
  <2>1. UNCHANGED <<s_host_synced, s_init_done>>
    BY <1>14 DEF OnConnect, OnConnectFailed, OnDisconnect, OnAdvComplete
  <2>2. PICK kind \in Kinds \ {"SYNC"} : Handle(kind)
    BY <1>14 DEF OnConnect, OnConnectFailed, OnDisconnect, OnAdvComplete, Kinds
  <2>3. Pending(kind) /\ (Pending("SYNC")' => Pending("SYNC"))
    BY <1>T, <2>2, Handled DEF Kinds
  <2>4. s_host_synced /\ ~Pending("SYNC")'
    BY <2>3 DEF BootInv
  <2> QED BY <2>1, <2>4, Synced
<1>15. CASE \/ Leave \/ Ages \/ UNCHANGED vars
            \/ (\E src \in Sources : Choose(src)) \/ (\E n \in 1..FrameSize+1 : Write(n))
  <2>1. UNCHANGED <<radio, s_advertising, link, s_host_synced, events, s_init_done, todo>>
    BY <1>15 DEF Leave, Ages, vars, Choose, Write
  <2>2. At("ui")' = At("ui") /\ At("host")' = At("host")
    BY <2>1 DEF At
  <2> QED BY <2>1, <2>2, BootSame
<1>16. ASSUME radio, NEW e \in Events, e.kind # "SYNC", events' = Append(events, e),
              UNCHANGED <<s_host_synced, s_init_done>>
       PROVE  BootInv'
  <2>1. s_host_synced
    BY <1>16 DEF BootInv
  <2>2. ~Pending("SYNC")'
    BY <1>16, <1>T, <2>1, Told DEF BootInv, Kinds
  <2> QED BY <1>16, <2>1, <2>2, Synced
<1>17. CASE PcConnects
  <2> DEFINE e == [kind |-> "CONNECT", conn |-> conns + 1]
  <2>1. e \in Events /\ e.kind # "SYNC"
    BY DEF Types, Events, Kinds
  <2>2. /\ radio /\ events' = Append(events, e)
        /\ UNCHANGED <<s_host_synced, s_init_done>>
    BY <1>17 DEF PcConnects, Air
  <2> HIDE DEF e
  <2> QED BY <1>16, <2>1, <2>2
<1>18. ASSUME NEW kind \in {"FAILED", "ADV_COMPLETE"}, RunEnds(kind)
       PROVE  BootInv'
  BY <1>16, <1>18, <1>E DEF RunEnds, Air
<1> QED BY <1>1, <1>2, <1>3, <1>4, <1>5, <1>6, <1>7, <1>9, <1>10, <1>11, <1>12, <1>13,
           <1>14, <1>15, <1>17, <1>18, <1>T
        DEF Next, UiSteps, HostSteps

\* The same, of a step that excuses nothing else.
LEMMA AloneOnly ==
  ASSUME NEW t \in Tasks, Excuse(Meets(t)), Clean'
  PROVE  \A o \in Tasks \ {t} : At(o) \notin AdvSteps
<1>1. Excuse(Meets(t) \cup {})
  BY DEF Excuse
<1> QED BY <1>1, Alone

\* The handler of an event of a run ran alone, and after it.
LEMMA LateAlone ==
  ASSUME NEW S, Excuse(S \cup Overlaps), Clean'
  PROVE  ~radio /\ At("ui") \notin AdvSteps
<1>1. Excuse(Meets("host") \cup (S \cup (IF radio THEN {"race"} ELSE {})))
  BY DEF Excuse, Overlaps
<1>2. "race" \notin S \cup (IF radio THEN {"race"} ELSE {})
      /\ \A o \in Tasks \ {"host"} : At(o) \notin AdvSteps
  BY <1>1, Alone DEF Tasks
<1>3. "ui" \in Tasks \ {"host"}
  BY DEF Tasks
<1> QED BY <1>2, <1>3

\* The radio, the flags and the host task are as they were; and the LVGL task
\* does something that is not about them.
LEMMA AdvSame ==
  ASSUME AdvInv, UNCHANGED <<radio, s_advertising, s_adv_wanted>>, At("host")' = At("host"),
         \/ At("ui")' = At("ui")
         \/ /\ At("ui") \notin Active \cup {"stop_test"}
            /\ At("ui")' \notin Active \cup {"start_test"},
         RunTold => RunTold', excused \subseteq excused'
  PROVE  AdvInv'
BY DEF AdvInv, AdvFacts, Clean, Active

\* The wish, the tests and the stop, by the LVGL task.
LEMMA AdvUi ==
  ASSUME TodoInv, AdvInv, BootInv,
         StartWanted \/ StartTest \/ StopWanted \/ StopTest \/ StopRadio
  PROVE  AdvInv'
<1> USE DEF airVars, advVars, linkVars, dataVars, initVars, srcVars, pageVars
<1> SUFFICES ASSUME Clean' PROVE AdvFacts'
  BY DEF AdvInv
<1>T. "ui" \in Tasks /\ "host" \in Tasks \ {"ui"}
  BY DEF Tasks
<1>O. {"adv_start", "adv_on", "adv_off", "start_test", "stop_test", "advertise", "adv_stop"}
        \subseteq Ops
  BY DEF Ops, AdvSteps
<1>1. AdvFacts
  <2>1. excused \subseteq excused'
    BY Grows DEF StartWanted, StopWanted, StartTest, StopTest, StopRadio
  <2> QED BY <2>1, StillClean DEF AdvInv
<1>2. UNCHANGED events => (RunTold' <=> RunTold)
  BY NoNews DEF RunTold, OfRun, Kinds
<1>3. CASE StartWanted
  <2>1. At("ui") = "start" /\ At("ui")' = "start_test" /\ At("host")' = At("host")
    BY <1>3, <1>O, <1>T, StepOne DEF StartWanted
  <2>2. s_adv_wanted' = TRUE /\ UNCHANGED <<radio, s_advertising, events>>
    BY <1>3 DEF StartWanted
  <2> QED BY <1>1, <1>2, <2>1, <2>2 DEF AdvFacts, Active
<1>4. CASE StopWanted
  <2>1. At("ui") = "stop" /\ At("ui")' = "stop_test" /\ At("host")' = At("host")
    BY <1>4, <1>O, <1>T, StepOne DEF StopWanted
  <2>2. UNCHANGED <<radio, s_advertising, events>>
    BY <1>4 DEF StopWanted
  <2> QED BY <1>1, <1>2, <2>1, <2>2 DEF AdvFacts, Active
<1>5. CASE StartTest
  <2>1. At("host") \notin AdvSteps
    BY <1>5, <1>T, AloneOnly DEF StartTest
  <2>2. UNCHANGED <<radio, s_advertising, s_adv_wanted, events>>
    BY <1>5 DEF StartTest
  <2>3. CASE ~s_host_synced \/ connected \/ s_advertising
    <3>1. Step("ui", "start_test", << >>)
      BY <1>5, <2>3 DEF StartTest
    <3>2. /\ At("ui") = "start_test" /\ At("ui")' \in Later \cup {"none"}
          /\ At("host")' = At("host")
      BY <1>T, <3>1, StepNone
    <3> QED BY <1>1, <1>2, <2>1, <2>2, <3>2 DEF AdvFacts, Active, Later, AdvSteps
  <2>4. CASE ~(~s_host_synced \/ connected \/ s_advertising)
    <3>1. Step("ui", "start_test", <<"advertise">>)
      BY <1>5, <2>4 DEF StartTest
    <3>2. /\ At("ui") = "start_test" /\ At("ui")' = "advertise"
          /\ At("host")' = At("host")
      BY <1>O, <1>T, <3>1, StepOne
    <3> QED BY <1>1, <1>2, <2>1, <2>2, <2>4, <3>2 DEF AdvFacts, Active, AdvSteps
  <2> QED BY <2>3, <2>4
<1>6. CASE StopTest
  <2>1. At("host") \notin AdvSteps
    BY <1>6, <1>T, AloneOnly DEF StopTest
  <2>2. UNCHANGED <<radio, s_adv_wanted, events>> /\ s_advertising' = FALSE
    BY <1>6 DEF StopTest
  <2>3. CASE s_advertising
    <3>1. Step("ui", "stop_test", <<"adv_stop">>)
      BY <1>6, <2>3 DEF StopTest
    <3>2. /\ At("ui") = "stop_test" /\ At("ui")' = "adv_stop"
          /\ At("host")' = At("host")
      BY <1>O, <1>T, <3>1, StepOne
    <3> QED BY <1>1, <1>2, <2>1, <2>2, <3>2 DEF AdvFacts, Active, AdvSteps
  <2>4. CASE ~s_advertising
    <3>1. Step("ui", "stop_test", << >>)
      BY <1>6, <2>4 DEF StopTest
    <3>2. /\ At("ui") = "stop_test" /\ At("ui")' \in Later \cup {"none"}
          /\ At("host")' = At("host")
      BY <1>T, <3>1, StepNone
    <3> QED BY <1>1, <1>2, <2>1, <2>2, <2>4, <3>2 DEF AdvFacts, Active, Later, AdvSteps
  <2> QED BY <2>3, <2>4
<1>7. CASE StopRadio
  <2>1. /\ At("ui") = "adv_stop" /\ At("ui")' \in Later \cup {"none"}
        /\ At("host")' = At("host")
    BY <1>7, <1>T, StepNone DEF StopRadio
  <2>2. UNCHANGED <<s_advertising, s_adv_wanted, events>> /\ radio' = FALSE
    BY <1>7 DEF StopRadio
  <2> QED BY <1>1, <1>2, <2>1, <2>2 DEF AdvFacts, Active, Later
<1> QED BY <1>3, <1>4, <1>5, <1>6, <1>7

\* pc_perf_advertise(), by either task.
LEMMA AdvRadio ==
  ASSUME TodoInv, AdvInv, NEW t \in Tasks, Advertise(t)
  PROVE  AdvInv'
<1> USE DEF airVars, advVars, linkVars, dataVars, initVars, srcVars, pageVars
<1> SUFFICES ASSUME Clean' PROVE AdvFacts'
  BY DEF AdvInv
<1>T. "ui" \in Tasks /\ "host" \in Tasks /\ "ui" # "host" /\ (t = "ui" \/ t = "host")
  BY DEF Tasks
<1>O. {"adv_start", "adv_on", "adv_off"} \subseteq Ops
  BY DEF Ops, AdvSteps
<1>G. excused \subseteq excused'
  BY Grows DEF Advertise, AdvFields, AdvStart, AdvFlag
<1>1. AdvFacts
  BY <1>G, StillClean DEF AdvInv
<1>2. RunTold' <=> RunTold
  <2>1. UNCHANGED events
    BY DEF Advertise, AdvFields, AdvStart, AdvFlag
  <2> QED BY <2>1, NoNews DEF RunTold, OfRun, Kinds
<1>F. ~Excuse({"fault"})
  BY DEF Excuse, Clean
<1>3. CASE AdvFields(t)
  <2>1. Step(t, "advertise", <<"adv_start">>)
        /\ UNCHANGED <<radio, s_advertising, s_adv_wanted>>
    BY <1>3, <1>F DEF AdvFields
  <2>2. /\ At(t) = "advertise" /\ At(t)' = "adv_start"
        /\ \A o \in Tasks \ {t} : At(o)' = At(o)
    BY <1>O, <2>1, StepOne
  <2> QED BY <1>T, <1>1, <1>2, <2>1, <2>2 DEF AdvFacts, Active
<1>4. CASE AdvStart(t)
  <2>1. \/ MayAdvertise /\ Step(t, "adv_start", <<"adv_on">>) /\ radio' = TRUE
        \/ Step(t, "adv_start", <<"adv_off">>) /\ UNCHANGED radio
    BY <1>4, <1>F DEF AdvStart
  <2>2. UNCHANGED <<s_advertising, s_adv_wanted>>
    BY <1>4 DEF AdvStart
  <2>3. CASE Step(t, "adv_start", <<"adv_on">>) /\ radio' = TRUE
    <3>1. /\ At(t) = "adv_start" /\ At(t)' = "adv_on"
          /\ \A o \in Tasks \ {t} : At(o)' = At(o)
      BY <1>O, <2>3, StepOne
    <3> QED BY <1>T, <1>1, <1>2, <2>2, <2>3, <3>1 DEF AdvFacts, Active
  <2>4. CASE Step(t, "adv_start", <<"adv_off">>) /\ UNCHANGED radio
    <3>1. /\ At(t) = "adv_start" /\ At(t)' = "adv_off"
          /\ \A o \in Tasks \ {t} : At(o)' = At(o)
      BY <1>O, <2>4, StepOne
    <3> QED BY <1>T, <1>1, <1>2, <2>2, <2>4, <3>1 DEF AdvFacts, Active
  <2> QED BY <2>1, <2>3, <2>4
<1>5. CASE AdvFlag(t)
  <2>1. \/ /\ Step(t, "adv_on", << >>) /\ s_advertising' = TRUE
           /\ Excuse(IF radio THEN {} ELSE {"race"})
        \/ Step(t, "adv_off", << >>) /\ s_advertising' = FALSE
    BY <1>5 DEF AdvFlag
  <2>2. UNCHANGED <<radio, s_adv_wanted>>
    BY <1>5 DEF AdvFlag
  <2>3. CASE /\ Step(t, "adv_on", << >>) /\ s_advertising' = TRUE
             /\ Excuse(IF radio THEN {} ELSE {"race"})
    <3>1. radio
      BY <2>3 DEF Excuse, Clean
    <3>2. /\ At(t) = "adv_on" /\ At(t)' \in Later \cup {"none"}
          /\ t = "host" => At(t)' = "none"
          /\ \A o \in Tasks \ {t} : At(o)' = At(o)
      BY <2>3, StepNone
    <3> QED BY <1>T, <1>1, <1>2, <2>2, <2>3, <3>1, <3>2 DEF AdvFacts, Active, Later
  <2>4. CASE Step(t, "adv_off", << >>) /\ s_advertising' = FALSE
    <3>1. /\ At(t) = "adv_off" /\ At(t)' \in Later \cup {"none"}
          /\ t = "host" => At(t)' = "none"
          /\ \A o \in Tasks \ {t} : At(o)' = At(o)
      BY <2>4, StepNone
    <3> QED BY <1>T, <1>1, <1>2, <2>2, <2>4, <3>1 DEF AdvFacts, Active, Later
  <2> QED BY <2>1, <2>3, <2>4
<1> QED BY <1>3, <1>4, <1>5 DEF Advertise

\* The handlers, and the test they end with.
LEMMA AdvHost ==
  ASSUME Types, TodoInv, AdvInv, BootInv,
         \/ Readvertise \/ OnSync \/ OnConnect \/ OnConnectFailed \/ OnDisconnect
         \/ OnAdvComplete
  PROVE  AdvInv'
<1> USE DEF airVars, advVars, linkVars, dataVars, initVars, srcVars, pageVars
<1> SUFFICES ASSUME Clean' PROVE AdvFacts'
  BY DEF AdvInv
<1>T. "ui" \in Tasks \ {"host"} /\ "host" \in Tasks /\ events \in Seq(Events)
  BY DEF Tasks, Types
<1>1. AdvFacts
  <2>1. excused \subseteq excused'
    BY Grows DEF Readvertise, OnSync, OnConnect, OnConnectFailed, OnDisconnect,
                 OnAdvComplete, Late
  <2> QED BY <2>1, StillClean DEF AdvInv
<1>F. ~Excuse({"fault"})
  BY DEF Excuse, Clean
<1>L. Late => ~radio /\ At("ui") \notin AdvSteps
  <2> HAVE Late
  <2>1. Excuse({} \cup Overlaps)
    BY DEF Late, Excuse
  <2> QED BY <2>1, LateAlone
<1>2. CASE Readvertise
  <2>1. At("ui") \notin AdvSteps /\ UNCHANGED <<radio, s_advertising, s_adv_wanted, events>>
    BY <1>2, <1>T, AloneOnly DEF Readvertise
  <2>2. RunTold' <=> RunTold
    BY <2>1, NoNews DEF RunTold, OfRun, Kinds
  <2>3. CASE s_adv_wanted
    <3>1. Step("host", "wanted", <<"advertise">>) /\ "advertise" \in Ops
      BY <1>2, <2>3 DEF Readvertise, Ops, AdvSteps
    <3>2. At("host") = "wanted" /\ At("host")' = "advertise" /\ At("ui")' = At("ui")
      BY <1>T, <3>1, StepOne
    <3> QED BY <1>1, <2>1, <2>2, <2>3, <3>2 DEF AdvFacts, Active, AdvSteps
  <2>4. CASE ~s_adv_wanted
    <3>1. Step("host", "wanted", << >>)
      BY <1>2, <2>4 DEF Readvertise
    <3>2. At("host") = "wanted" /\ At("host")' = "none" /\ At("ui")' = At("ui")
      BY <1>T, <3>1, StepNone
    <3> QED BY <1>1, <2>1, <2>2, <2>4, <3>2 DEF AdvFacts, Active, AdvSteps
  <2> QED BY <2>3, <2>4
<1>3. CASE OnSync
  <2>1. Handle("SYNC") /\ Wanted /\ UNCHANGED <<radio, s_advertising, s_adv_wanted>>
    BY <1>3, <1>F DEF OnSync
  <2>2. ~radio /\ ~s_advertising /\ At("ui") \notin Active /\ todo["host"] = << >>
    BY <1>T, <2>1, Handled DEF BootInv
  <2>3. At("host")' = "wanted" /\ At("ui")' = At("ui")
    BY <2>1, <2>2, WantedEffect
  <2> QED BY <1>1, <2>1, <2>2, <2>3 DEF AdvFacts, Active
<1>4. CASE OnConnect
  <2>1. /\ ~radio /\ At("ui") \notin AdvSteps
        /\ todo["host"] = << >> /\ s_advertising' = FALSE
        /\ UNCHANGED <<radio, s_adv_wanted, todo>>
    BY <1>4, <1>L DEF OnConnect, Handle
  <2>2. At("host")' = "none" /\ At("ui")' = At("ui")
    BY <2>1 DEF At
  <2> QED BY <1>1, <2>1, <2>2 DEF AdvFacts, Active, AdvSteps
<1>5. CASE OnConnectFailed
  <2>1. /\ ~radio /\ At("ui") \notin AdvSteps
        /\ todo["host"] = << >> /\ Wanted
        /\ UNCHANGED <<radio, s_adv_wanted, s_advertising>>
    BY <1>5, <1>L DEF OnConnectFailed, Handle
  <2>2. At("host")' = "wanted" /\ At("ui")' = At("ui")
    BY <2>1, WantedEffect
  <2> QED BY <1>1, <2>1, <2>2 DEF AdvFacts, Active, AdvSteps
<1>6. CASE OnDisconnect \/ OnAdvComplete
  <2>1. ~radio /\ At("ui") \notin AdvSteps
    BY <1>6, <1>L, LateAlone DEF OnDisconnect, OnAdvComplete
  <2>2. /\ todo["host"] = << >> /\ Wanted /\ s_advertising' = FALSE
        /\ UNCHANGED <<radio, s_adv_wanted>>
    BY <1>6 DEF OnDisconnect, OnAdvComplete, Handle
  <2>3. At("host")' = "wanted" /\ At("ui")' = At("ui")
    BY <2>2, WantedEffect
  <2> QED BY <1>1, <2>1, <2>2, <2>3 DEF AdvFacts, Active, AdvSteps
<1> QED BY <1>2, <1>3, <1>4, <1>5, <1>6

\* Every step keeps AdvInv.
LEMMA AdvStep ==
  ASSUME Types, TodoInv, BootInv, AdvInv, [Next]_vars
  PROVE  AdvInv'
<1> USE DEF airVars, advVars, linkVars, dataVars, initVars, srcVars, pageVars
<1>T. "ui" \in Tasks /\ "host" \in Tasks \ {"ui"} /\ events \in Seq(Events)
  BY DEF Tasks, Types
<1>E. /\ Event("SYNC") \in Events /\ Event("DISCONNECT") \in Events
      /\ Event("FAILED") \in Events /\ Event("ADV_COMPLETE") \in Events
      /\ \A kind : Event(kind).kind = kind
  BY DEF Event, Events, Kinds, NONE
<1>A. /\ \A op \in {"disconnect", "terminate", "forget", "init", "render", "none"} :
           op \notin Active \cup {"stop_test"}
      /\ \A op \in Later \cup {"none", "terminate", "init"} :
           op \notin Active \cup {"start_test"}
  BY DEF Later, Active
<1>R. ASSUME NEW e \in Events, events' = events \/ events' = Append(events, e)
      PROVE  RunTold => RunTold'
  <2>1. CASE events' = events
    BY <2>1, NoNews DEF RunTold, OfRun, Kinds
  <2>2. CASE events' = Append(events, e)
    BY <1>T, <2>2, Told DEF RunTold, OfRun, Kinds
  <2> QED BY <1>R, <2>1, <2>2
<1>1. ASSUME NEW t \in Tasks, Advertise(t)
      PROVE  AdvInv'
  BY <1>1, AdvRadio
<1>2. CASE StartWanted \/ StartTest \/ StopWanted \/ StopTest \/ StopRadio
  BY <1>2, AdvUi
<1>3. CASE EndTest \/ Terminate \/ Forget \/ InitBle \/ Tick \/ Render
  <2>1. UNCHANGED <<radio, s_advertising, s_adv_wanted>>
    BY <1>3 DEF EndTest, Terminate, Forget, InitBle, Tick, Render
  <2>2. excused \subseteq excused'
    BY <1>3, Grows DEF EndTest, Terminate, Forget, InitBle, Tick, Render
  <2>3. RunTold => RunTold'
    <3>1. \/ events' = events \/ events' = Append(events, Event("DISCONNECT"))
          \/ events' = Append(events, Event("SYNC"))
      BY <1>3 DEF EndTest, Terminate, Forget, InitBle, Tick, Render
    <3> QED BY <1>E, <1>R, <3>1
  <2>4. /\ At("host")' = At("host")
        /\ At("ui") \in {"disconnect", "terminate", "forget", "init", "render", "none"}
        /\ At("ui")' \in Later \cup {"none", "terminate", "init"}
    <3>1. CASE EndTest
      BY <3>1, EndTestEffect
    <3>2. CASE Tick
      BY <3>2, TickEffect DEF Later
    <3>3. CASE Terminate \/ Forget \/ InitBle \/ Render
      <4>1. \/ Step("ui", "terminate", << >>) \/ Step("ui", "forget", << >>)
            \/ Step("ui", "init", << >>) \/ Step("ui", "render", << >>)
        BY <3>3 DEF Terminate, Forget, InitBle, Render
      <4> QED BY <1>T, <4>1, StepNone
    <3> QED BY <1>3, <3>1, <3>2, <3>3
  <2> QED BY <1>A, <2>1, <2>2, <2>3, <2>4, AdvSame
<1>4. CASE \/ Readvertise \/ OnSync \/ OnConnect \/ OnConnectFailed \/ OnDisconnect
           \/ OnAdvComplete
  BY <1>4, AdvHost
<1>5. CASE \/ Leave \/ LinkDrops \/ Ages \/ UNCHANGED vars
           \/ (\E src \in Sources : Choose(src)) \/ (\E n \in 1..FrameSize+1 : Write(n))
  <2>1. UNCHANGED <<radio, s_advertising, s_adv_wanted, todo>>
    BY <1>5 DEF Leave, LinkDrops, Air, Ages, vars, Choose, Write
  <2>2. excused \subseteq excused'
    BY <1>5, Grows DEF Leave, LinkDrops, Air, Ages, vars, Choose, Write
  <2>3. RunTold => RunTold'
    <3>1. events' = events \/ events' = Append(events, Event("DISCONNECT"))
      BY <1>5 DEF Leave, LinkDrops, Air, Ages, vars, Choose, Write
    <3> QED BY <1>E, <1>R, <3>1
  <2>4. At("ui")' = At("ui") /\ At("host")' = At("host")
    BY <2>1 DEF At
  <2> QED BY <2>1, <2>2, <2>3, <2>4, AdvSame
<1>6. ASSUME radio, radio' = FALSE, NEW e \in Events, e.kind \in OfRun,
             events' = Append(events, e),
             UNCHANGED <<s_advertising, s_adv_wanted, todo, excused>>
      PROVE  AdvInv'
  <2>1. RunTold'
    BY <1>6, <1>T, Told DEF RunTold, OfRun, Kinds
  <2>2. At("ui")' = At("ui") /\ At("host")' = At("host")
    BY <1>6 DEF At
  <2> QED BY <1>6, <2>1, <2>2 DEF AdvInv, AdvFacts, Clean
<1>7. CASE PcConnects
  <2> DEFINE e == [kind |-> "CONNECT", conn |-> conns + 1]
  <2>1. e \in Events /\ e.kind \in OfRun
    BY DEF Types, Events, Kinds, OfRun
  <2>2. /\ radio /\ radio' = FALSE /\ events' = Append(events, e)
        /\ UNCHANGED <<s_advertising, s_adv_wanted, todo, excused>>
    BY <1>7 DEF PcConnects, Air
  <2> HIDE DEF e
  <2> QED BY <1>6, <2>1, <2>2
<1>8. ASSUME NEW kind \in {"FAILED", "ADV_COMPLETE"}, RunEnds(kind)
      PROVE  AdvInv'
  BY <1>6, <1>8, <1>E DEF RunEnds, Air, OfRun
<1> QED BY <1>1, <1>2, <1>3, <1>4, <1>5, <1>7, <1>8, <1>T DEF Next, UiSteps, HostSteps

-----------------------------------------------------------------------------
(* The bounds and the data. *)

\* What TypeOK says and the others do not: the bounds, and the data.
DataInv ==
  /\ started \in BOOLEAN /\ stale \in BOOLEAN /\ s_init_done \in BOOLEAN
  /\ s_ble_started \in BOOLEAN /\ visible \in BOOLEAN
  /\ conns <= MaxConns /\ sent <= MaxBytes
  /\ s_bin \in Seq(Bytes) /\ Len(s_bin) < FrameSize
  /\ sample \in Seq(Bytes) /\ Len(sample) \in {0, FrameSize}
  /\ s_src \in Sources /\ nvsSrc \in Sources

\* A write leaves less than a frame in the buffer, and takes no more.
LEMMA DataWrite ==
  ASSUME Types, LinkInv, DataInv, NEW n \in 1 .. FrameSize + 1, Write(n)
  PROVE  /\ s_bin' \in Seq(Bytes) /\ Len(s_bin') < FrameSize
         /\ sample' \in Seq(Bytes) /\ Len(sample') \in {0, FrameSize}
<1>1. /\ FrameSize \in Nat \ {0} /\ n \in Nat \ {0} /\ sent \in Nat
      /\ link \in Nat /\ link # NONE /\ link <= MaxConns /\ MaxConns \in Nat
      /\ s_bin \in Seq(Bytes) /\ Len(s_bin) \in 0 .. FrameSize - 1
  <2>1. FrameSize \in Nat \ {0} /\ MaxConns \in Nat
    BY PcPerfAssumption
  <2>2. link \in Nat /\ sent \in Nat /\ link # NONE /\ link = conns /\ conns <= MaxConns
    BY DEF Types, LinkInv, LinkFacts, DataInv, Write
  <2>3. s_bin \in Seq(Bytes) /\ Len(s_bin) < FrameSize
    BY DEF DataInv
  <2>4. Len(s_bin) \in 0 .. FrameSize - 1
    BY <2>1, <2>3
  <2> QED BY <2>1, <2>2, <2>3, <2>4
<1> DEFINE kept == IF n > FrameSize THEN FrameSize ELSE n
           more == [i \in 1..kept |-> [conn |-> link, pos |-> sent + i - 1]]
           fed  == s_bin \o more
           take == Len(fed) >= FrameSize /\ IsHeader(fed[1])
<1>2. /\ s_bin' = Remaining(fed)
      /\ sample' = IF take THEN SubSeq(fed, 1, FrameSize) ELSE sample
  BY DEF Write
<1>3. kept \in 1 .. FrameSize
  BY <1>1
<1> HIDE DEF kept
<1>4. more \in Seq(Bytes) /\ Len(more) = kept
  <2>1. link \in Conns
    BY <1>1 DEF Conns, NONE
  <2>2. \A i \in 1 .. kept : sent + i - 1 \in Nat
    BY <1>1, <1>3
  <2>3. \A i \in 1 .. kept : [conn |-> link, pos |-> sent + i - 1] \in Bytes
    BY <2>1, <2>2 DEF Bytes
  <2>4. kept \in Nat
    BY <1>1, <1>3
  <2> QED BY <2>3, <2>4
<1> HIDE DEF more
<1>5. fed \in Seq(Bytes) /\ Len(fed) = Len(s_bin) + kept
  BY <1>1, <1>4, ConcatProperties
<1>6. Len(fed) \in 0 .. 2 * FrameSize - 1
  BY <1>1, <1>3, <1>5
<1> HIDE DEF fed
<1>7. \A i \in 1 .. Len(fed) : fed[i] \in Bytes
  BY <1>5, ElementOfSeq
<1>8. s_bin' \in Seq(Bytes) /\ Len(s_bin') < FrameSize
  <2>1. CASE Len(fed) >= FrameSize
    <3>1. s_bin' = SubSeq(fed, FrameSize + 1, Len(fed))
      BY <1>2, <2>1 DEF Remaining
    <3>2. \A i \in FrameSize + 1 .. Len(fed) : i \in 1 .. Len(fed)
      BY <1>1, <1>6
    <3>3. FrameSize + 1 \in Int /\ Len(fed) \in Int
      BY <1>1, <1>6
    <3>4. /\ s_bin' \in Seq(Bytes)
          /\ Len(s_bin') = IF FrameSize + 1 <= Len(fed)
                            THEN Len(fed) - (FrameSize + 1) + 1 ELSE 0
      BY <1>7, <3>1, <3>2, <3>3, SubSeqProperties
    <3> QED BY <1>1, <1>6, <3>4
  <2>2. CASE ~(Len(fed) >= FrameSize)
    <3>1. s_bin' = fed
      BY <1>2, <2>2 DEF Remaining
    <3> QED BY <1>1, <1>5, <1>6, <2>2, <3>1
  <2> QED BY <2>1, <2>2
<1>9. sample' \in Seq(Bytes) /\ Len(sample') \in {0, FrameSize}
  <2>1. CASE take
    <3>1. sample' = SubSeq(fed, 1, FrameSize) /\ Len(fed) >= FrameSize
      BY <1>2, <2>1
    <3>2. \A i \in 1 .. FrameSize : i \in 1 .. Len(fed)
      BY <1>1, <1>6, <3>1
    <3>3. 1 \in Int /\ FrameSize \in Int
      BY <1>1
    <3>4. /\ sample' \in Seq(Bytes)
          /\ Len(sample') = IF 1 <= FrameSize THEN FrameSize - 1 + 1 ELSE 0
      BY <1>7, <3>1, <3>2, <3>3, SubSeqProperties
    <3> QED BY <1>1, <3>4
  <2>2. CASE ~take
    BY <1>2, <2>2 DEF DataInv
  <2> QED BY <2>1, <2>2
<1> QED BY <1>8, <1>9

\* Every step keeps DataInv.
LEMMA DataStep ==
  ASSUME Types, LinkInv, DataInv, [Next]_vars
  PROVE  DataInv'
<1> USE DEF airVars, advVars, linkVars, dataVars, initVars, srcVars, pageVars
<1>1. CASE HostSteps \/ (UiSteps /\ ~InitBle /\ ~Tick) \/ Leave \/ UNCHANGED vars
  <2>1. /\ UNCHANGED <<started, stale, s_init_done, s_ble_started, conns, sent, s_bin,
                       sample, s_src, nvsSrc>>
        /\ visible' = visible \/ visible' = FALSE
    BY <1>1 DEF HostSteps, UiSteps, Advertise, AdvFields, AdvStart, AdvFlag, StartWanted,
                StartTest, StopWanted, StopTest, StopRadio, EndTest, Terminate, Forget,
                Render, Readvertise, OnSync, OnConnect, OnConnectFailed, OnDisconnect,
                OnAdvComplete, Leave, vars
  <2> QED BY <2>1 DEF DataInv
<1>2. CASE InitBle \/ Tick
  <2>1. /\ UNCHANGED <<stale, conns, sent, s_bin, sample, s_src, nvsSrc, visible>>
        /\ started' = started \/ started' = TRUE
        /\ s_init_done' = s_init_done \/ s_init_done' = TRUE
        /\ s_ble_started' \in BOOLEAN
    BY <1>2 DEF InitBle, Tick, DataInv
  <2> QED BY <2>1 DEF DataInv
<1>3. ASSUME NEW src \in Sources, Choose(src)
      PROVE  DataInv'
  <2>1. /\ UNCHANGED <<started, stale, s_init_done, s_ble_started, conns, sent, s_bin,
                       sample>>
        /\ visible' = visible \/ visible' = TRUE
        /\ s_src' = src /\ nvsSrc' \in {src, nvsSrc}
    BY <1>3 DEF Choose, SrcSet
  <2> QED BY <2>1 DEF DataInv
<1>4. ASSUME NEW n \in 1..FrameSize+1, Write(n)
      PROVE  DataInv'
  <2>1. /\ UNCHANGED <<started, s_init_done, s_ble_started, conns, visible, s_src, nvsSrc>>
        /\ sent' <= MaxBytes
    BY <1>4 DEF Write
  <2>2. stale' \in BOOLEAN
    BY <1>4 DEF Write
  <2> QED BY <1>4, <2>1, <2>2, DataWrite DEF DataInv
<1>5. CASE PcConnects \/ RunEnds("FAILED") \/ RunEnds("ADV_COMPLETE") \/ LinkDrops
  <2>1. /\ UNCHANGED <<started, stale, s_init_done, s_ble_started, s_bin, sample, s_src,
                       nvsSrc, visible>>
        /\ conns' = conns \/ (conns < MaxConns /\ conns' = conns + 1)
        /\ sent' = sent \/ sent' = 0
    BY <1>5 DEF PcConnects, RunEnds, LinkDrops, Air
  <2>2. conns \in Nat /\ MaxConns \in Nat /\ MaxBytes \in Nat
    BY PcPerfAssumption DEF Types
  <2>3. conns' <= MaxConns /\ sent' <= MaxBytes
    BY <2>1, <2>2 DEF DataInv
  <2> QED BY <2>1, <2>3 DEF DataInv
<1>6. CASE Ages
  <2>1. stale' = TRUE
        /\ UNCHANGED <<started, s_init_done, s_ble_started, conns, sent, s_bin, sample,
                       s_src, nvsSrc, visible>>
    BY <1>6 DEF Ages
  <2> QED BY <2>1 DEF DataInv
<1> QED BY <1>1, <1>2, <1>3, <1>4, <1>5, <1>6 DEF Next, UiSteps

-----------------------------------------------------------------------------
(* The theorems. *)

IInv == Types /\ TodoInv /\ LinkInv /\ FrameInv /\ BootInv /\ AdvInv /\ DataInv

\* It holds at boot.
LEMMA InitInv == ASSUME Init PROVE IInv
<1> USE DEF Init
<1>1. events = << >> /\ Len(events) = 0 /\ \A k : ~Pending(k)
  BY DEF Pending
<1>2. /\ todo = [t \in Tasks |-> << >>] /\ todo["ui"] = << >> /\ todo["host"] = << >>
      /\ At("ui") = "none" /\ At("host") = "none"
  BY DEF Tasks, At
<1>3. Types
  <2>1. events \in Seq(Events) /\ s_bin \in Seq([conn : Nat, pos : Nat])
    BY EmptySeq
  <2> QED BY <2>1 DEF Types, NONE
<1>4. TodoInv
  <2>1. << >> \in Seq(Ops) /\ Len(<< >>) = 0
    BY Short
  <2>2. \A i \in 2 .. Len(<< >>) : FALSE
    BY <2>1
  <2> QED BY <1>2, <2>1, <2>2 DEF TodoInv
<1>5. LinkInv
  BY <1>1 DEF LinkInv, Ordered, Numbered, LinkFacts, NONE
<1>6. FrameInv
  BY <1>1 DEF FrameInv, NoSample
<1>7. BootInv
  BY <1>1, <1>2 DEF BootInv, Active
<1>8. AdvInv
  BY <1>2 DEF AdvInv, AdvFacts, Active
<1>9. DataInv
  <2>1. << >> \in Seq(Bytes) /\ Len(<< >>) = 0
    BY EmptySeq
  <2>2. 0 <= MaxConns /\ 0 <= MaxBytes /\ 0 < FrameSize
    BY PcPerfAssumption
  <2> QED BY <2>1, <2>2 DEF DataInv, Loaded, NoSample
<1> QED BY <1>3, <1>4, <1>5, <1>6, <1>7, <1>8, <1>9 DEF IInv

\* It is inductive.
LEMMA StepInv == ASSUME IInv, [Next]_vars PROVE IInv'
BY TypesStep, TodoStep, LinkStep, FrameStep, BootStep, AdvStep, DataStep DEF IInv

\* It always holds.
LEMMA Inductive == Spec => []IInv
BY InitInv, StepInv, PTL DEF Spec

\* Until a link ended in the middle of a frame, or a write was longer than one,
\* the sample of a link is a frame the PC sent on that link, and what the page
\* shows is a frame: frame_feed() stays in step with the PC over any number of
\* connections, and no values of an earlier link count as those of this one.
THEOREM SampleIsWhole == Spec => []SampleWhole
<1>1. ASSUME IInv PROVE SampleWhole
  <2> SUFFICES ASSUME "cut" \notin excused
               PROVE  /\ valid => /\ Whole(sample, sample[1].conn)
                                  /\ connected => sample[1].conn = s_conn_handle
                      /\ shown # NoSample => Whole(shown, shown[1].conn)
    BY DEF SampleWhole
  <2>1. /\ valid => Whole(sample, conns)
        /\ shown # NoSample => Whole(shown, shown[1].conn)
    BY <1>1 DEF IInv, FrameInv
  <2>2. connected => s_conn_handle = conns
    BY <1>1 DEF IInv, LinkInv, LinkFacts
  <2> QED BY <2>1, <2>2, OwnFrame
<1> QED BY <1>1, Inductive, PTL

\* Once the events are handled and no call is in progress, s_advertising tells
\* whether the radio advertises, unless the two tasks met in pc_perf_advertise()
\* or the stack refused a call; and the handle tells which link there is, unless
\* pc_perf_disconnect() forgot one that had not ended.
THEOREM FlagsTellTheTruth == Spec => []FlagsAreTrue
<1>1. ASSUME IInv PROVE FlagsAreTrue
  <2> SUFFICES ASSUME Settled
               PROVE  /\ {"race", "fault"} \cap excused = {} => (s_advertising <=> radio)
                      /\ "ghost" \notin excused =>
                           s_conn_handle = link /\ (connected <=> link # NONE)
    BY DEF FlagsAreTrue
  <2>1. \A k : ~Pending(k)
    BY DEF Settled, Pending
  <2>2. At("ui") = "none" /\ At("host") = "none"
    BY DEF Settled, At, Tasks
  <2>3. ASSUME {"race", "fault"} \cap excused = {}
        PROVE  s_advertising <=> radio
    <3>1. Clean
      BY <2>3 DEF Clean
    <3>2. AdvFacts
      BY <1>1, <3>1 DEF IInv, AdvInv
    <3> QED BY <2>1, <2>2, <3>2 DEF AdvFacts, RunTold
  <2>4. ASSUME "ghost" \notin excused
        PROVE  s_conn_handle = link /\ (connected <=> link # NONE)
    BY <1>1, <2>1, <2>4 DEF IInv, LinkInv, LinkFacts
  <2> QED BY <2>3, <2>4
<1> QED BY <1>1, Inductive, PTL

\* The types and the bounds; and frame_feed() never holds a whole frame, so that
\* the next write, of which it takes at most a frame, cannot run over s_bin.
THEOREM TypeCorrect == Spec => []TypeOK
<1>1. ASSUME IInv PROVE TypeOK
  <2>1. MaxConns \in Nat /\ MaxBytes \in Nat
    BY PcPerfAssumption
  <2>2. Types /\ DataInv /\ LinkFacts
    BY <1>1 DEF IInv, LinkInv
  <2>3. conns \in 0..MaxConns /\ sent \in 0..MaxBytes
    BY <2>1, <2>2 DEF Types, DataInv
  <2>4. NONE \in 0..MaxConns
    BY <2>1 DEF NONE
  <2>5. link \in 0..MaxConns /\ s_conn_handle \in 0..MaxConns
    BY <2>2, <2>3, <2>4 DEF LinkFacts
  <2>6. {radio, started, s_host_synced, s_adv_wanted, s_advertising, connected, valid,
         stale, s_init_done, s_ble_started, visible} \subseteq BOOLEAN
    BY <2>2 DEF Types, DataInv
  <2> QED BY <2>2, <2>3, <2>5, <2>6 DEF TypeOK, DataInv
<1> QED BY <1>1, Inductive, PTL
=============================================================================
