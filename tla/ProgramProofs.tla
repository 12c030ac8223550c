---------------------------- MODULE ProgramProofs ----------------------------
(***************************************************************************)
(* Proofs about what check() reports, for every program, device and bound, *)
(* on the history of module CheckProofs.                                   *)
(*                                                                         *)
(* Each property needs a part of the sink the history does not say: what   *)
(* was said of the slots, of the budgets, of a phase, of a tone table, of  *)
(* a memory.  That part joins HInv in an invariant of its own, and is then *)
(* read off when the program ends.                                         *)
(*                                                                         *)
(* In the order of the file: slots, the order of the report, budgets,      *)
(* phases, tones, envelope memory, widths.                                 *)
(***************************************************************************)
EXTENDS CheckProofs

-----------------------------------------------------------------------------
(* capture_slot.  The captures of f at time t, and the times of the        *)
(* operations after it.                                                    *)
Together(p, b, f, t) == {i \in Placed(p, f, {"capture"}) : b[i][f] = t}

After(p, b, f, t) == {v \in Nat : v > t /\ \E i \in Placed(p, f, Operations) : b[i][f] = v}

(* The captures at a time and the operations after it, after one more      *)
(* element.                                                                *)
LEMMA TogetherGrows ==
    ASSUME NEW p, NEW b, NEW c, History(p, b, c), NEW el \in ElementSet, NEW f \in Frames,
           NEW t \in Nat
    PROVE  /\ Together(p, b, f, t) \subseteq 1 .. Len(p)
           /\ Together(Append(p, el), Append(b, c), f, t)
                  = Together(p, b, f, t) \cup IF el.kind = "capture" /\ el.frame = f /\ c[f] = t
                                              THEN {Len(p) + 1} ELSE {}
           /\ \A v : v \in After(Append(p, el), Append(b, c), f, t)
                        <=> \/ v \in After(p, b, f, t)
                            \/ el.kind \in Operations /\ el.frame = f /\ v = c[f] /\ v > t
           /\ \A v \in After(p, b, f, t) : v \in Nat /\ t < v /\ v <= c[f]
           /\ Together(p, b, f, t) # {} => t <= c[f]
<1> DEFINE q == Append(p, el)
           bb == Append(b, c)
           n == Len(p) + 1
<1>1. /\ p \in Seq(ElementSet) /\ b \in Seq([Frames -> Nat]) /\ Len(b) = Len(p)
      /\ c \in [Frames -> Nat] /\ Len(p) \in Nat /\ c[f] \in Nat
      /\ \A i \in 1 .. Len(p) : b[i][f] \in Nat /\ b[i][f] <= c[f]
  BY HistoryTypes DEF History
<1>2. bb[n] = c /\ \A i \in 1 .. Len(p) : bb[i] = b[i]
  BY <1>1, OneMore
<1>3. \A kinds : /\ Placed(p, f, kinds) \subseteq 1 .. Len(p)
                 /\ Placed(q, f, kinds)
                        = Placed(p, f, kinds) \cup IF el.kind \in kinds /\ el.frame = f
                                                   THEN {n} ELSE {}
  BY <1>1, PlacedGrows
<1> HIDE DEF q, bb
<1>4. Together(p, b, f, t) \subseteq 1 .. Len(p)
  BY <1>3 DEF Together
<1>5. Together(q, bb, f, t)
          = Together(p, b, f, t) \cup IF el.kind = "capture" /\ el.frame = f /\ c[f] = t
                                      THEN {n} ELSE {}
  <2>1. \A i : i \in Placed(q, f, {"capture"})
                   <=> \/ i \in Placed(p, f, {"capture"})
                       \/ i = n /\ el.kind = "capture" /\ el.frame = f
    BY <1>3
  <2>2. \A i \in Placed(p, f, {"capture"}) : bb[i] = b[i]
    BY <1>2, <1>3
  <2> QED BY <1>2, <2>1, <2>2 DEF Together
<1>6. ASSUME NEW v
      PROVE  v \in After(q, bb, f, t)
                 <=> \/ v \in After(p, b, f, t)
                     \/ el.kind \in Operations /\ el.frame = f /\ v = c[f] /\ v > t
  <2>1. \A i : i \in Placed(q, f, Operations)
                   <=> \/ i \in Placed(p, f, Operations)
                       \/ i = n /\ el.kind \in Operations /\ el.frame = f
    BY <1>3
  <2>2. \A i \in Placed(p, f, Operations) : bb[i] = b[i]
    BY <1>2, <1>3
  <2>3. (\E i \in Placed(q, f, Operations) : bb[i][f] = v)
            <=> \/ \E i \in Placed(p, f, Operations) : b[i][f] = v
                \/ el.kind \in Operations /\ el.frame = f /\ v = c[f]
    BY <1>2, <2>1, <2>2
  <2> QED BY <1>1, <2>3 DEF After
<1>7. \A v \in After(p, b, f, t) : v \in Nat /\ t < v /\ v <= c[f]
  BY <1>1, <1>3 DEF After
<1>8. Together(p, b, f, t) # {} => t <= c[f]
  BY <1>1, <1>4 DEF Together
<1> QED BY <1>4, <1>5, <1>6, <1>7, <1>8 DEF q, bb

(* What the sink k says of the captures at t: broken, once, if gap is not  *)
(* a slot.                                                                 *)
Settled(p, b, k, f, t, gap) ==
    /\ Names(k, "capture_slot", Together(p, b, f, t)) <=> SlotBroken(f, gap)
    /\ Lone(k, "capture_slot", Together(p, b, f, t))

SettledAfter(p, b, k, f, t) ==
    \E u \in After(p, b, f, t) :
        (\A v \in After(p, b, f, t) : u <= v) /\ Settled(p, b, k, f, t, ToTicks(f, u - t))

(* While the loop runs the captures nothing followed are the open ones,    *)
(* and the sink does not know of them.                                     *)
SlotAt(p, b, k, f, t, open) ==
    IF After(p, b, f, t) = {}
    THEN open = t /\ ~Names(k, "capture_slot", Together(p, b, f, t))
    ELSE open # t /\ SettledAfter(p, b, k, f, t)

SlotsAt(p, b, k, f, open) ==
    \A t \in Nat : Together(p, b, f, t) # {} => SlotAt(p, b, k, f, t, open)

Opener(p, b, f, open, e) == open # Absent => open \in Nat /\ e \in Together(p, b, f, open)

(* What an element of f says of the capture e that is open since open.     *)
Closes(s, f, open, e, now) ==
    \A elements :
        Names(s, "capture_slot", elements)
            <=> /\ open # Absent /\ now # open /\ SlotBroken(f, ToTicks(f, now - open))
                /\ e \in elements

Overlooks(s, p, f) ==
    \A elements : elements \subseteq Placed(p, f, {"capture"})
                      => ~Names(s, "capture_slot", elements)

(* What the sink says of captures, after one more element: the first       *)
(* operation after a capture settles it, and nothing later does.           *)
LEMMA SlotsGrow ==
    ASSUME NEW p, NEW b, NEW c, History(p, b, c), NEW el \in ElementSet, NEW f \in Frames,
           NEW k \in Seq(Rejected), NEW s \in Seq(Rejected), Once(s),
           NoneAhead(p, k, "capture_slot"),
           NEW open, NEW e, SlotsAt(p, b, k, f, open), Opener(p, b, f, open, e),
           NEW own, own = (el.kind \in Operations /\ el.frame = f),
           own => Closes(s, f, open, e, c[f]),
           ~own => Overlooks(s, p, f),
           NEW open2, NEW e2,
           open2 = IF el.kind = "capture" /\ el.frame = f THEN c[f]
                   ELSE IF own /\ open # Absent /\ c[f] # open THEN Absent
                   ELSE open,
           e2 = IF el.kind = "capture" /\ el.frame = f THEN Len(p) + 1 ELSE e
    PROVE  /\ SlotsAt(Append(p, el), Append(b, c), k \o s, f, open2)
           /\ Opener(Append(p, el), Append(b, c), f, open2, e2)
<1> DEFINE q == Append(p, el)
           bb == Append(b, c)
           n == Len(p) + 1
           takes == el.kind = "capture" /\ el.frame = f
           cs == "capture_slot"
<1>1. Len(p) \in Nat /\ c[f] \in Nat /\ c[f] # Absent /\ p \in Seq(ElementSet)
  BY HistoryTypes, AbsentAssumption DEF History
<1>2. ASSUME NEW t \in Nat
      PROVE  /\ Together(p, b, f, t) \subseteq 1 .. Len(p)
             /\ Together(q, bb, f, t)
                    = Together(p, b, f, t) \cup IF takes /\ c[f] = t THEN {n} ELSE {}
             /\ \A v : v \in After(q, bb, f, t)
                          <=> v \in After(p, b, f, t) \/ (own /\ v = c[f] /\ v > t)
             /\ \A v \in After(p, b, f, t) : v \in Nat /\ t < v /\ v <= c[f]
             /\ Together(p, b, f, t) # {} => t <= c[f]
  <2>1. /\ Together(p, b, f, t) \subseteq 1 .. Len(p)
        /\ Together(q, bb, f, t)
               = Together(p, b, f, t) \cup IF el.kind = "capture" /\ el.frame = f /\ c[f] = t
                                           THEN {n} ELSE {}
        /\ \A v : v \in After(q, bb, f, t)
                     <=> \/ v \in After(p, b, f, t)
                         \/ el.kind \in Operations /\ el.frame = f /\ v = c[f] /\ v > t
        /\ \A v \in After(p, b, f, t) : v \in Nat /\ t < v /\ v <= c[f]
        /\ Together(p, b, f, t) # {} => t <= c[f]
    BY TogetherGrows
  <2> HIDE DEF q, bb
  <2> QED BY <2>1
<1>3. takes => own
  BY DEF Operations, Outputs
<1>4. \A elements : Names(k \o s, cs, elements) <=> Names(k, cs, elements) \/ Names(s, cs, elements)
  BY NamesConcat
<1>5. ASSUME NEW elements, Lone(k, cs, elements),
             ~Names(k, cs, elements) \/ ~Names(s, cs, elements)
      PROVE  Lone(k \o s, cs, elements)
  BY <1>5, LoneConcat DEF Once
<1>6. ~Names(k, cs, {n})
  BY <1>1 DEF NoneAhead
<1> HIDE DEF q, bb, takes
<1>7. ASSUME NEW t \in Nat, Together(q, bb, f, t) # {} PROVE SlotAt(q, bb, k \o s, f, t, open2)
  <2> DEFINE G == Together(p, b, f, t)
             H == Together(q, bb, f, t)
             A == After(p, b, f, t)
             D == After(q, bb, f, t)
  <2>1. CASE ~own
    <3>1. H = G /\ D = A
      BY <1>2, <1>3, <2>1
    <3>2. ~Names(s, cs, G)
      BY <2>1 DEF Overlooks, Together
    <3>3. open2 = open
      BY <1>3, <2>1 DEF takes
    <3>4. SlotAt(p, b, k, f, t, open)
      BY <1>7, <3>1 DEF SlotsAt
    <3>5. Names(k \o s, cs, G) <=> Names(k, cs, G)
      BY <1>4, <3>2
    <3>6. Lone(k, cs, G) => Lone(k \o s, cs, G)
      BY <1>5, <3>2
    <3> QED BY <3>1, <3>3, <3>4, <3>5, <3>6 DEF SlotAt, SettledAfter, Settled
  <2>2. CASE own /\ G = {}
    <3>1. takes /\ t = c[f] /\ H = {n}
      BY <1>2, <1>7, <2>2
    <3>2. D = {}
      BY <1>1, <1>2, <3>1
    <3>3. ~Names(s, cs, H)
      <4>1. open # Absent => e # n
        BY <1>1, <1>2 DEF Opener
      <4> QED BY <2>2, <3>1, <4>1 DEF Closes
    <3>4. open2 = t
      BY <3>1 DEF takes
    <3> QED BY <1>4, <1>6, <3>1, <3>2, <3>3, <3>4 DEF SlotAt
  <2>3. CASE own /\ G # {} /\ A = {}
    <3>1. open = t /\ ~Names(k, cs, G) /\ t <= c[f] /\ open # Absent /\ e \in G
      BY <1>2, <2>3, AbsentAssumption DEF SlotsAt, SlotAt, Opener
    <3>2. CASE c[f] = t
      <4>1. D = {} /\ open2 = t
        BY <1>2, <2>3, <3>1, <3>2 DEF takes
      <4>2. ~Names(s, cs, H)
        BY <2>3, <3>1, <3>2 DEF Closes
      <4>3. ~Names(k, cs, H)
        <5>1. H \subseteq G \cup {n}
          BY <1>2
        <5> QED BY <1>6, <3>1, <5>1 DEF Names
      <4> QED BY <1>4, <4>1, <4>2, <4>3 DEF SlotAt
    <3>3. CASE c[f] # t
      <4>1. c[f] > t
        BY <1>1, <3>1, <3>3
      <4>2. D = {c[f]} /\ H = G
        BY <1>2, <2>3, <3>3, <4>1
      <4>3. open2 # t
        BY <1>1, <2>3, <3>1, <3>3, AbsentAssumption
      <4>4. Names(s, cs, H) <=> SlotBroken(f, ToTicks(f, c[f] - t))
        BY <2>3, <3>1, <3>3, <4>2 DEF Closes
      <4>5. Lone(k \o s, cs, H)
        BY <1>5, <3>1, <4>2, LoneSilent
      <4>6. Settled(q, bb, k \o s, f, t, ToTicks(f, c[f] - t))
        BY <1>4, <3>1, <4>2, <4>4, <4>5 DEF Settled
      <4>7. SettledAfter(q, bb, k \o s, f, t)
        BY <1>1, <4>2, <4>6 DEF SettledAfter
      <4> QED BY <4>2, <4>3, <4>7 DEF SlotAt
    <3> QED BY <3>2, <3>3
  <2>4. CASE own /\ G # {} /\ A # {}
    <3>1. open # t /\ SettledAfter(p, b, k, f, t)
      BY <2>4 DEF SlotsAt, SlotAt
    <3>2. PICK u \in A : (\A v \in A : u <= v) /\ Settled(p, b, k, f, t, ToTicks(f, u - t))
      BY <3>1 DEF SettledAfter
    <3>3. u \in Nat /\ t < u /\ u <= c[f]
      BY <1>2
    <3>4. H = G /\ u \in D /\ \A v \in D : u <= v
      <4>1. H = G /\ u \in D
        <5>1. c[f] # t
          BY <1>1, <3>3
        <5>2. H = G
          BY <1>2, <5>1
        <5>3. u \in D
          BY <1>2, <3>2
        <5> QED BY <5>2, <5>3
      <4>2. ASSUME NEW v \in D PROVE u <= v
        <5>1. v \in A \/ v = c[f]
          BY <1>2, <4>2
        <5> HIDE DEF A
        <5> QED BY <3>2, <3>3, <5>1
      <4> QED BY <4>1, <4>2
    <3>5. ~Names(s, cs, G)
      <4>1. open # Absent => e \notin G
        BY <3>1 DEF Opener, Together
      <4> QED BY <2>4, <4>1 DEF Closes
    <3>6. open2 # t
      BY <1>1, <3>1, <3>3, AbsentAssumption
    <3>7. Names(k \o s, cs, G) <=> Names(k, cs, G)
      BY <1>4, <3>5
    <3>8. Lone(k \o s, cs, G)
      BY <1>5, <3>2, <3>5 DEF Settled
    <3>9. Settled(q, bb, k \o s, f, t, ToTicks(f, u - t))
      BY <3>2, <3>4, <3>7, <3>8 DEF Settled
    <3> QED BY <3>4, <3>6, <3>9 DEF SlotAt, SettledAfter
  <2> QED BY <2>1, <2>2, <2>3, <2>4
<1>8. Opener(q, bb, f, open2, e2)
  <2>1. CASE takes
    <3>1. open2 = c[f] /\ e2 = n
      BY <2>1 DEF takes
    <3> QED BY <1>1, <1>2, <2>1, <3>1 DEF Opener
  <2>2. CASE ~takes
    <3>1. e2 = e /\ open2 \in {Absent, open}
      BY <2>2 DEF takes
    <3> QED BY <1>2, <3>1 DEF Opener
  <2> QED BY <2>1, <2>2
<1>9. SlotsAt(q, bb, k \o s, f, open2)
  BY <1>7 DEF SlotsAt
<1> QED BY <1>8, <1>9 DEF q, bb

(* While the loop runs, and after the open captures were closed.           *)
SlotsTold ==
    /\ NoneAhead(prog, sink, "capture_slot")
    /\ \A f \in Frames : FrameDeclares(f, "capture_slot") =>
           /\ SlotsAt(prog, before, sink, f, states[f].openCapture)
           /\ Opener(prog, before, f, states[f].openCapture, states[f].openCaptureElement)

SlotsSettled(k) ==
    \A f \in Frames : FrameDeclares(f, "capture_slot") =>
        \A t \in Nat : Together(prog, before, f, t) # {} =>
            IF After(prog, before, f, t) = {}
            THEN Settled(prog, before, k, f, t, programEnd - ToTicks(f, t))
            ELSE SettledAfter(prog, before, k, f, t)

VInv ==
    /\ HInv
    /\ phase \in Loop => SlotsTold
    /\ phase \in {"spacing", "budgets", "done"} => SlotsSettled(sink)

(* An element keeps what the sink says of captures.                        *)
LEMMA ElementKeepsSlots ==
    ASSUME VInv, NEW el \in ElementSet, ReadElement(el), ~ToolError,
           before' = Append(before, Clocks)
    PROVE  SlotsTold'
<1> DEFINE cs == "capture_slot"
           g == el.frame
<1>1. /\ IInv /\ sink \in Seq(Rejected) /\ prog \in Seq(ElementSet)
      /\ History(prog, before, Clocks) /\ Len(prog) \in Nat
      /\ phase = "elements" /\ prog' = Append(prog, el)
      /\ \A f \in Frames : Moves(el, f)
      /\ \A f \in Frames : Clocks[f] = states[f].clock /\ Clocks[f] \in Nat
  <2>1. HInv /\ IInv /\ History(prog, before, Clocks)
    BY DEF VInv, HInv
  <2>2. \A f \in Frames : Clocks[f] = states[f].clock
    BY DEF Clocks
  <2> QED BY <2>1, <2>2, ElementMoves, HistoryTypes DEF HInv, History
<1>2. PICK s : Adds(el, s) /\ sink' = sink \o s
  BY <1>1, ElementAdds
<1>3. s \in Seq(Rejected) /\ Once(s)
  BY <1>2 DEF Adds
<1>4. SlotsTold
  BY <1>1 DEF VInv, Loop
<1>5. ASSUME NEW elements
      PROVE  Names(s, cs, elements)
                 <=> /\ el.kind \in Operations
                     /\ states[g].openCaptureElement \in elements
                     /\ SettlesSlot(g, states[g])
                     /\ SlotBroken(g, ToTicks(g, states[g].clock - states[g].openCapture))
  <2>1. Names(s, cs, elements) <=> Fires(el, cs, elements)
    BY <1>2 DEF Adds, TimeIds
  <2> QED BY <2>1 DEF Fires, NoteFires, RepeatRules
<1>6. el.kind \in Operations => g \in Frames
  BY ElementFrame DEF Operations, Outputs
<1>7. el.kind \in Operations /\ SettlesSlot(g, states[g])
          => states[g].openCaptureElement \in Placed(prog, g, {"capture"})
  BY <1>4, <1>6 DEF SettlesSlot, SlotsTold, Opener, Together
<1>8. NoneAhead(prog', sink', cs)
  <2> SUFFICES ASSUME NEW e \in Nat, e > Len(prog') PROVE ~Names(sink', cs, {e})
    BY DEF NoneAhead
  <2>1. e > Len(prog)
    BY <1>1, OneMore
  <2>2. ~Names(sink, cs, {e})
    BY <1>4, <2>1 DEF SlotsTold, NoneAhead
  <2>3. ~Names(s, cs, {e})
    <3>1. e \notin Placed(prog, g, {"capture"})
      <4>1. DOMAIN prog = 1 .. Len(prog)
        BY <1>1, LenProperties
      <4> QED BY <1>1, <2>1, <4>1 DEF Placed
    <3> QED BY <1>5, <1>7, <3>1
  <2> QED BY <1>1, <1>2, <1>3, <2>2, <2>3, NamesConcat
<1>9. ASSUME NEW f \in Frames, FrameDeclares(f, cs)
      PROVE  /\ SlotsAt(prog', before', sink', f, states'[f].openCapture)
             /\ Opener(prog', before', f, states'[f].openCapture, states'[f].openCaptureElement)
  <2> DEFINE own == el.kind \in Operations /\ g = f
             open == states[f].openCapture
             e == states[f].openCaptureElement
             open2 == states'[f].openCapture
             e2 == states'[f].openCaptureElement
  <2>1. NoneAhead(prog, sink, cs) /\ SlotsAt(prog, before, sink, f, open)
        /\ Opener(prog, before, f, open, e)
    BY <1>4, <1>9 DEF SlotsTold
  <2>2. SettlesSlot(f, states[f]) <=> open # Absent /\ Clocks[f] # open
    BY <1>1, <1>9 DEF SettlesSlot
  <2>3. own => Closes(s, f, open, e, Clocks[f])
    BY <1>1, <1>5, <2>2 DEF Closes
  <2>4. ~own => Overlooks(s, prog, f)
    <3> SUFFICES ASSUME ~own, NEW elements, elements \subseteq Placed(prog, f, {"capture"}),
                        Names(s, cs, elements)
                 PROVE  FALSE
      BY DEF Overlooks
    <3>1. states[g].openCaptureElement \in elements /\ g # f
      BY <1>5
    <3>2. states[g].openCaptureElement \in Placed(prog, g, {"capture"})
      BY <1>5, <1>7
    <3> QED BY <3>1, <3>2 DEF Placed
  <2>5. /\ open2 = IF el.kind = "capture" /\ g = f THEN Clocks[f]
                   ELSE IF own /\ open # Absent /\ Clocks[f] # open THEN Absent
                   ELSE open
        /\ e2 = IF el.kind = "capture" /\ g = f THEN Len(prog) + 1 ELSE e
    <3>1. CASE el.kind # "barrier" /\ f = g
      <4>1. Recalls(el, states[f], states'[f])
        BY <1>1, <3>1 DEF Moves, Remembers
      <4> QED BY <1>1, <2>2, <3>1, <4>1 DEF Recalls, Element
    <3>2. CASE ~(el.kind # "barrier" /\ f = g)
      <4>1. OpenKept(states[f], states'[f])
        BY <1>1, <3>2 DEF Moves
      <4>2. ~own /\ ~(el.kind = "capture" /\ g = f)
        BY <3>2 DEF Operations, Outputs
      <4> QED BY <4>1, <4>2 DEF OpenKept
    <3> QED BY <3>1, <3>2
  <2> HIDE DEF own, open, e, open2, e2
  <2>6. /\ SlotsAt(Append(prog, el), Append(before, Clocks), sink \o s, f, open2)
        /\ Opener(Append(prog, el), Append(before, Clocks), f, open2, e2)
    <3>1. own = (el.kind \in Operations /\ el.frame = f)
      BY DEF own
    <3> QED BY <1>1, <1>3, <2>1, <2>3, <2>4, <2>5, <3>1, SlotsGrow
  <2> QED BY <1>1, <1>2, <2>6 DEF open2, e2
<1> QED BY <1>8, <1>9 DEF SlotsTold

(* Closing the open captures settles those nothing followed, and no other. *)
LEMMA CloseSlotsSettles ==
    ASSUME VInv, CloseSlots, ~ToolError
    PROVE  SlotsSettled(sink')
<1> DEFINE cs == "capture_slot"
<1>1. /\ HInv /\ IInv /\ sink \in Seq(Rejected) /\ SlotsTold
      /\ History(prog, before, Clocks)
  BY DEF VInv, HInv, CloseSlots, Loop
<1>2. PICK s \in Seq(Rejected) :
          /\ sink' = sink \o s
          /\ \A elements :
                 Names(s, cs, elements)
                     <=> \E f \in Frames : /\ BreaksSlotAtEnd(f)
                                           /\ states[f].openCaptureElement \in elements
          /\ \A elements : OneBreaks(elements) => Lone(s, cs, elements)
  BY <1>1, SlotsAdd
<1> SUFFICES ASSUME NEW f \in Frames, FrameDeclares(f, cs), NEW t \in Nat,
                    Together(prog, before, f, t) # {}
             PROVE  IF After(prog, before, f, t) = {}
                    THEN Settled(prog, before, sink', f, t, programEnd - ToTicks(f, t))
                    ELSE SettledAfter(prog, before, sink', f, t)
  BY DEF SlotsSettled
<1> DEFINE G == Together(prog, before, f, t)
           open == states[f].openCapture
           e == states[f].openCaptureElement
<1>3. /\ SlotAt(prog, before, sink, f, t, open) /\ Opener(prog, before, f, open, e)
  BY <1>1 DEF SlotsTold, SlotsAt
<1>4. ASSUME NEW g \in Frames, BreaksSlotAtEnd(g), states[g].openCaptureElement \in G
      PROVE  g = f
  <2>1. Opener(prog, before, g, states[g].openCapture, states[g].openCaptureElement)
    BY <1>1, <1>4 DEF SlotsTold, BreaksSlotAtEnd, SettlesAtEnd
  <2>2. states[g].openCaptureElement \in Placed(prog, g, {"capture"})
    BY <1>4, <2>1 DEF Opener, Together, BreaksSlotAtEnd, SettlesAtEnd
  <2> QED BY <1>4, <2>2 DEF Together, Placed
<1>5. Names(s, cs, G) <=> BreaksSlotAtEnd(f) /\ e \in G
  BY <1>2, <1>4
<1>6. Lone(s, cs, G)
  <2>1. OneBreaks(G)
    BY <1>4 DEF OneBreaks
  <2> QED BY <1>2, <2>1
<1>7. Names(sink', cs, G) <=> Names(sink, cs, G) \/ Names(s, cs, G)
  BY <1>1, <1>2, NamesConcat
<1>8. Lone(sink, cs, G) /\ (~Names(sink, cs, G) \/ ~Names(s, cs, G)) => Lone(sink', cs, G)
  BY <1>1, <1>2, <1>6, LoneConcat
<1> HIDE DEF G
<1>9. CASE After(prog, before, f, t) = {}
  <2>1. open = t /\ ~Names(sink, cs, G) /\ e \in G /\ t # Absent
    BY <1>3, <1>9, AbsentAssumption DEF SlotAt, Opener, G
  <2>2. Names(s, cs, G) <=> SlotBroken(f, programEnd - ToTicks(f, t))
    BY <1>5, <2>1 DEF BreaksSlotAtEnd, SettlesAtEnd, EndGap
  <2>3. Lone(sink', cs, G)
    BY <1>8, <2>1, LoneSilent
  <2> QED BY <1>7, <1>9, <2>1, <2>2, <2>3 DEF Settled, G
<1>10. CASE After(prog, before, f, t) # {}
  <2>1. open # t /\ SettledAfter(prog, before, sink, f, t)
    BY <1>3, <1>10 DEF SlotAt
  <2>2. ~Names(s, cs, G)
    <3>1. open # Absent /\ e \in G => open = t
      BY <1>3 DEF Opener, Together, G
    <3> QED BY <1>5, <2>1, <3>1 DEF BreaksSlotAtEnd, SettlesAtEnd
  <2>3. (Names(sink', cs, G) <=> Names(sink, cs, G)) /\ (Lone(sink, cs, G) => Lone(sink', cs, G))
    BY <1>7, <1>8, <2>2
  <2>4. \A gap : Settled(prog, before, sink, f, t, gap) => Settled(prog, before, sink', f, t, gap)
    BY <2>3 DEF Settled, G
  <2>5. SettledAfter(prog, before, sink', f, t)
    BY <2>1, <2>4 DEF SettledAfter
  <2> QED BY <1>10, <2>5
<1> QED BY <1>9, <1>10

(* What is added about other rules leaves it so.                           *)
LEMMA SilentKeepsSlots ==
    ASSUME sink \in Seq(Rejected), SlotsSettled(sink), NEW s \in Seq(Rejected), Silent(s)
    PROVE  SlotsSettled(sink \o s)
<1>1. ASSUME NEW f, NEW t, NEW gap, Settled(prog, before, sink, f, t, gap)
      PROVE  Settled(prog, before, sink \o s, f, t, gap)
  <2> DEFINE G == Together(prog, before, f, t)
  <2>1. ~Names(s, "capture_slot", G) /\ Lone(s, "capture_slot", G)
    BY LoneSilent DEF Silent
  <2>2. Names(sink \o s, "capture_slot", G) <=> Names(sink, "capture_slot", G)
    BY <2>1, NamesConcat
  <2>3. Lone(sink \o s, "capture_slot", G)
    BY <1>1, <2>1, LoneConcat DEF Settled
  <2> QED BY <1>1, <2>2, <2>3 DEF Settled
<1> QED BY <1>1 DEF SlotsSettled, SettledAfter

(* The steps after the loop settle the rest and then leave them.           *)
LEMMA OtherKeepsVInv ==
    ASSUME VInv, [Next]_vars, ~\E el \in ElementSet : ReadElement(el) /\ ~ToolError,
           before' = before, HInv'
    PROVE  VInv'
<1> DEFINE late == {"spacing", "budgets", "done"}
<1>1. /\ HInv /\ IInv /\ sink \in Seq(Rejected)
      /\ prog' = prog /\ programEnd' = programEnd
  BY OtherSteps DEF VInv, HInv
<1>2. ASSUME sink' = sink, states' = states, phase' \in Loop => phase \in Loop,
             phase' \in late => phase \in late
      PROVE  VInv'
  BY <1>1, <1>2 DEF VInv, SlotsTold, SlotsSettled
<1>3. ASSUME SlotsSettled(sink'), phase' \in late PROVE VInv'
  <2>1. phase' \notin Loop
    BY <1>3 DEF Loop
  <2>2. SlotsSettled(sink)'
    BY <1>1, <1>3 DEF SlotsSettled
  <2> QED BY <2>1, <2>2 DEF VInv
<1>4. CASE ToolError
  BY <1>2, <1>4 DEF ToolError, progVars, Loop
<1>5. CASE Bind
  BY <1>2, <1>4, <1>5 DEF Bind, progVars, Loop
<1>6. CASE EndOfProgram
  BY <1>2, <1>6 DEF EndOfProgram, progVars, Loop
<1>7. CASE CloseSlots /\ ~ToolError
  <2>1. phase' = "spacing"
    BY <1>7 DEF CloseSlots
  <2> QED BY <1>3, <1>7, <2>1, CloseSlotsSettles
<1>8. CASE CloseSpacing /\ ~ToolError
  <2>1. phase = "spacing" /\ phase' = "budgets"
    BY <1>8 DEF CloseSpacing
  <2>2. PICK s \in Seq(Rejected) :
            /\ sink' = sink \o s
            /\ \A rule, elements : Names(s, rule, elements) => rule = "start_spacing"
    BY <1>1, <1>8, SpacingAdds
  <2>3. Silent(s)
    BY <2>2 DEF Silent
  <2> QED BY <1>1, <1>3, <2>1, <2>2, <2>3, SilentKeepsSlots DEF VInv
<1>9. CASE SkipBudget
  BY <1>2, <1>9 DEF SkipBudget, progVars, Loop
<1>10. CASE CountBudget /\ ~ToolError
  <2>1. phase = "budgets" /\ phase' = "budgets"
    BY <1>10 DEF CountBudget
  <2>2. PICK s \in Seq(Rejected) :
            /\ sink' = sink \o s
            /\ \A rule, elements : Names(s, rule, elements) => rule = Budgets[nextBudget].id
    BY <1>1, <1>10, BudgetAdds
  <2>3. Budgets[nextBudget].id # "capture_slot"
    <3>1. nextBudget \in 1 .. Len(Budgets)
      BY <1>1, <1>10, BudgetAssumption DEF CountBudget, IInv, Typed
    <3> QED BY <3>1, BudgetAssumption
  <2>4. Silent(s)
    BY <2>2, <2>3 DEF Silent
  <2> QED BY <1>1, <1>3, <2>1, <2>2, <2>4, SilentKeepsSlots DEF VInv
<1>11. CASE Finish \/ Idle \/ UNCHANGED vars
  BY <1>2, <1>11 DEF Finish, Idle, vars, progVars, Loop
<1> QED BY <1>4, <1>5, <1>6, <1>7, <1>8, <1>9, <1>10, <1>11 DEF Next

(* There are no captures before the program is read.                       *)
LEMMA InitVInv ==
    ASSUME HInit PROVE VInv
<1>1. prog = << >> /\ sink = << >> /\ phase = "start"
      /\ states = [f \in Frames |-> InitialState(f)]
  BY DEF HInit, Init
<1>2. \A f, kinds : Placed(prog, f, kinds) = {}
  BY <1>1 DEF Placed
<1>3. \A f \in Frames : states[f].openCapture = Absent
  BY <1>1 DEF InitialState
<1>4. SlotsTold
  BY <1>1, <1>2, <1>3, NamesNone DEF SlotsTold, NoneAhead, SlotsAt, Opener, Together
<1> QED BY <1>1, <1>4, InitHInv DEF VInv

(* Open captures are unknown to the sink, settled ones are in it as they   *)
(* should be.                                                              *)
THEOREM SlotsTheorem == HSpec => []VInv
<1>1. HInit => VInv
  BY InitVInv
<1>2. VInv /\ [HNext]_<< vars, before >> => VInv'
  <2> SUFFICES ASSUME VInv, [HNext]_<< vars, before >> PROVE VInv'
    OBVIOUS
  <2>1. HInv /\ HInv' /\ [Next]_vars
    BY StepHInv DEF VInv, HNext
  <2>2. CASE \E el \in ElementSet : ReadElement(el) /\ ~ToolError
    <3>1. PICK el \in ElementSet : ReadElement(el) /\ ~ToolError
      BY <2>2
    <3>2. before' = Append(before, Clocks)
      BY <2>1, <3>1, ElementRecorded
    <3>3. SlotsTold'
      BY <3>1, <3>2, ElementKeepsSlots
    <3>4. phase' = "elements"
      BY <2>1, <3>1, ElementMoves DEF HInv
    <3> QED BY <2>1, <3>3, <3>4 DEF VInv
  <2>3. CASE ~\E el \in ElementSet : ReadElement(el) /\ ~ToolError
    BY <2>1, <2>3, OtherRecorded, OtherKeepsVInv
  <2> QED BY <2>2, <2>3
<1> QED BY <1>1, <1>2, PTL DEF HSpec

(* What follows a capture, in the terms of the history. *)
LEMMA FollowersAre ==
    ASSUME HInv, Bound, NEW f \in Frames, NEW i \in On(f, {"capture"}), NEW t, t = Start(i)
    PROVE  /\ t \in Nat /\ i \in Together(prog, before, f, t) /\ StartTicks(i) = ToTicks(f, t)
           /\ CapturesAt(f, i) = Together(prog, before, f, t)
           /\ \A x : x \in Followers(f, i)
                        <=> \E v \in After(prog, before, f, t) : x = ToTicks(f, v)
<1>1. /\ History(prog, before, Clocks) /\ Typed
      /\ \A j \in 1 .. Len(prog) : before[j][f] \in Nat
      /\ \A j, k \in 1 .. Len(prog) : j <= k => before[j][f] <= before[k][f]
      /\ prog \in Seq(ElementSet) /\ DOMAIN prog = 1 .. Len(prog) /\ Len(prog) \in Nat
  BY HistoryTypes DEF HInv, IInv, History
<1>2. /\ \A kinds : On(f, kinds) = Placed(prog, f, kinds) /\ On(f, kinds) \subseteq 1 .. Len(prog)
      /\ \A kinds : \A j \in On(f, kinds) :
            Start(j) = before[j][f] /\ prog[j].frame = f /\ StartTicks(j) = ToTicks(f, Start(j))
  BY <1>1, OnIsPlaced DEF Placed, StartTicks
<1>3. t \in Nat /\ i \in Together(prog, before, f, t) /\ StartTicks(i) = ToTicks(f, t)
  BY <1>1, <1>2 DEF Together
<1>4. CapturesAt(f, i) = Together(prog, before, f, t)
  BY <1>2 DEF CapturesAt, Together
<1>5. ASSUME NEW k \in On(f, Operations)
      PROVE  k > i /\ Start(k) # Start(i) <=> Start(k) > t
  <2>1. i \in 1 .. Len(prog) /\ k \in 1 .. Len(prog)
    BY <1>2
  <2>2. /\ Start(k) = before[k][f] /\ Start(i) = before[i][f]
        /\ before[k][f] \in Nat /\ before[i][f] \in Nat
        /\ k <= i => before[k][f] <= before[i][f]
        /\ i <= k => before[i][f] <= before[k][f]
    BY <1>1, <1>2, <2>1
  <2> QED BY <1>1, <2>1, <2>2
<1>6. ASSUME NEW x
      PROVE  x \in Followers(f, i) <=> \E v \in After(prog, before, f, t) : x = ToTicks(f, v)
  <2>1. x \in Followers(f, i)
            <=> \E k \in On(f, Operations) : k > i /\ Start(k) # Start(i) /\ x = StartTicks(k)
    BY DEF Followers
  <2>2. x \in Followers(f, i)
            <=> \E k \in On(f, Operations) : Start(k) > t /\ x = StartTicks(k)
    BY <1>5, <2>1
  <2>3. \A k \in On(f, Operations) : Start(k) \in Nat /\ StartTicks(k) = ToTicks(f, Start(k))
    BY <1>1, <1>2
  <2>4. \A v : v \in After(prog, before, f, t)
                  <=> v \in Nat /\ v > t /\ \E k \in On(f, Operations) : Start(k) = v
    BY <1>2 DEF After
  <2> QED BY <2>2, <2>3, <2>4
<1> QED BY <1>3, <1>4, <1>6

(* Times in ticks keep the order and the distance of times in units.       *)
LEMMA TicksOrdered ==
    ASSUME Typed, Bound, NEW f \in Frames, NEW x \in Nat, NEW y \in Nat, x <= y
    PROVE  /\ ToTicks(f, x) \in Nat /\ ToTicks(f, y) \in Nat
           /\ ToTicks(f, x) <= ToTicks(f, y)
           /\ ToTicks(f, y) - ToTicks(f, x) = ToTicks(f, y - x)
<1>1. PICK u \in Nat : u = FrameUnit(f)
  BY UnitPositive DEF Bound
<1>2. PICK d \in Nat : d = y - x
  OBVIOUS
<1>3. y = x + d
  BY <1>2
<1>4. (x + d) * u = x * u + d * u /\ x * u \in Nat /\ d * u \in Nat
  OBVIOUS
<1> QED BY <1>1, <1>2, <1>3, <1>4 DEF ToTicks

(* capture_slot: each capture time is cited exactly when what follows it,  *)
(* or the end of the program, breaks the slot, and then once, though the   *)
(* checker remembers one open capture at a time.                           *)
THEOREM SlotsKeptTheorem == HSpec => []SlotsKept
<1>1. ASSUME VInv PROVE SlotsKept
  <2> SUFFICES ASSUME phase = "done", NEW f \in Frames, FrameDeclares(f, "capture_slot"),
                      NEW i \in On(f, {"capture"})
               PROVE  Cardinality(Cited("capture_slot", CapturesAt(f, i)))
                          = IF SlotBroken(f, Follows(f, i) - StartTicks(i)) THEN 1 ELSE 0
    BY DEF SlotsKept
  <2>1. HInv /\ Bound /\ Typed /\ SlotsSettled(sink)
    BY <1>1 DEF VInv, HInv, IInv
  <2>2. PICK t : t = Start(i)
    OBVIOUS
  <2> DEFINE G == Together(prog, before, f, t)
             A == After(prog, before, f, t)
  <2>3. /\ t \in Nat /\ i \in G /\ StartTicks(i) = ToTicks(f, t) /\ CapturesAt(f, i) = G
        /\ \A x : x \in Followers(f, i) <=> \E v \in A : x = ToTicks(f, v)
    BY <2>1, <2>2, FollowersAre
  <2>4. IF A = {} THEN Settled(prog, before, sink, f, t, programEnd - ToTicks(f, t))
        ELSE SettledAfter(prog, before, sink, f, t)
    BY <2>1, <2>3 DEF SlotsSettled
  <2>5. Settled(prog, before, sink, f, t, Follows(f, i) - StartTicks(i))
    <3>1. CASE A = {}
      <4>1. Followers(f, i) = {}
        BY <2>3, <3>1
      <4>2. Follows(f, i) = programEnd
        BY <2>1, <4>1, EndIsEnd DEF Follows
      <4> QED BY <2>3, <2>4, <3>1, <4>2
    <3>2. CASE A # {}
      <4>1. PICK u \in A : (\A v \in A : u <= v)
                           /\ Settled(prog, before, sink, f, t, ToTicks(f, u - t))
        BY <2>4, <3>2 DEF SettledAfter
      <4>2. \A v \in A : v \in Nat /\ t < v
        BY <2>3 DEF After
      <4> HIDE DEF A
      <4>3. ASSUME NEW v \in A PROVE ToTicks(f, v) \in Nat /\ ToTicks(f, u) <= ToTicks(f, v)
        BY <2>1, <4>1, <4>2, TicksOrdered
      <4>4. Followers(f, i) \in SUBSET Int
        BY <2>3, <4>3
      <4>5. ToTicks(f, u) \in Followers(f, i)
            /\ \A x \in Followers(f, i) : ToTicks(f, u) <= x
        BY <2>3, <4>1, <4>3
      <4>6. Min(Followers(f, i)) = ToTicks(f, u)
        BY <4>4, <4>5, MinIs
      <4>7. Follows(f, i) = ToTicks(f, u)
        BY <4>5, <4>6 DEF Follows
      <4>8. ToTicks(f, u) - ToTicks(f, t) = ToTicks(f, u - t)
        <5>1. t <= u /\ u \in Nat
          BY <2>3, <4>1, <4>2
        <5> QED BY <2>1, <2>3, <5>1, TicksOrdered
      <4> QED BY <2>3, <4>1, <4>7, <4>8
    <3> QED BY <3>1, <3>2
  <2> DEFINE C == Cited("capture_slot", G)
             broken == SlotBroken(f, Follows(f, i) - StartTicks(i))
  <2>6. (C # {} <=> broken) /\ \A m, n \in C : m = n
    <3>1. C # {} <=> Names(sink, "capture_slot", G)
      BY CitedNames
    <3>2. \A m, n \in C : m = n
      BY <2>5 DEF Settled, Lone, Cited
    <3> QED BY <2>5, <3>1, <3>2 DEF Settled
  <2> HIDE DEF C, broken
  <2>7. CASE broken
    <3>1. PICK m \in C : TRUE
      BY <2>6, <2>7
    <3>2. C = {m}
      BY <2>6
    <3> QED BY <2>3, <2>7, <3>2, FS_Singleton DEF C, broken
  <2>8. CASE ~broken
    <3>1. C = {}
      BY <2>6, <2>8
    <3> QED BY <2>3, <2>8, <3>1, FS_EmptySet DEF C, broken
  <2> QED BY <2>7, <2>8
<1> QED BY <1>1, SlotsTheorem, PTL

-----------------------------------------------------------------------------
(* Every class has its place in the registry. *)
LEMMA ClassesApart ==
    /\ DOMAIN CoverageClasses = 1 .. 26
    /\ \A i, j \in 1 .. 26 : CoverageClasses[i] = CoverageClasses[j] => i = j
<1>1. DOMAIN CoverageClasses = 1 .. 26
  BY DEF CoverageClasses, RuleIds
<1>2. /\ \A i \in 1 .. 22 : CoverageClasses[i] = RuleIds[i]
      /\ \A i \in 23 .. 26 : CoverageClasses[i] = << "pmem_words", "wmem_words", "loop_registers",
                                 "unconstrained_channel" >>[i - 22]
  BY DEF CoverageClasses, RuleIds
<1>3. \A i, j \in 1 .. 22 : RuleIds[i] = RuleIds[j] => i = j
  BY DEF RuleIds
<1>4. \A i \in 1 .. 22 : RuleIds[i] \notin {"pmem_words", "wmem_words", "loop_registers",
                                 "unconstrained_channel"}
  BY DEF RuleIds
<1>5. \A i \in 23 .. 26 : CoverageClasses[i] \in {"pmem_words", "wmem_words", "loop_registers",
                                 "unconstrained_channel"}
  BY <1>2
<1>6. \A i, j \in 23 .. 26 : CoverageClasses[i] = CoverageClasses[j] => i = j
  BY <1>2
<1> HIDE DEF CoverageClasses, RuleIds
<1>7. \A i \in 1 .. 26 : i \in 1 .. 22 \/ i \in 23 .. 26
  OBVIOUS
<1> QED BY <1>1, <1>2, <1>3, <1>4, <1>5, <1>6, <1>7

(* The rank of a class is that place.                                      *)
LEMMA RankIs ==
    ASSUME NEW i \in 1 .. 26 PROVE Rank(CoverageClasses[i]) = i
<1>1. \A j \in 1 .. 26 : CoverageClasses[j] = CoverageClasses[i] <=> j = i
  BY ClassesApart
<1>2. (CHOOSE j \in 1 .. 26 : CoverageClasses[j] = CoverageClasses[i]) = i
  BY <1>1
<1> QED BY <1>2, ClassesApart DEF Rank

(* The places of the sink that one rule has.                               *)
Ruled(rule) == {n \in DOMAIN sink : sink[n].rule = rule}

(* The rejections of one rule are those of the sink, in their order.       *)
LEMMA UnderRule ==
    ASSUME sink \in Seq(Rejected), NEW rule
    PROVE  /\ Under(rule) \in Seq(Rejected)
           /\ \A r : r \in ToSet(Under(rule)) <=> r \in ToSet(sink) /\ r.rule = rule
           /\ Len(Under(rule)) = Cardinality(Ruled(rule))
           /\ \A n \in Ruled(rule) : Under(rule)[CountTo(Ruled(rule), n)] = sink[n]
<1> DEFINE m == Len(sink)
           Q == Ruled(rule)
           ss == [n \in DOMAIN sink |-> When(sink[n].rule = rule, sink[n])]
<1>1. DOMAIN sink = 1 .. m /\ m \in Nat /\ \A n \in 1 .. m : sink[n] \in Rejected
  BY LenProperties, ElementOfSeq
<1>2. ASSUME NEW n \in 1 .. m
      PROVE  /\ ss[n] \in Seq(Rejected)
             /\ ss[n] = IF n \in Q THEN << sink[n] >> ELSE << >>
             /\ \A r : r \in ToSet(ss[n]) <=> r = sink[n] /\ r.rule = rule
  <2>1. ss[n] = IF sink[n].rule = rule THEN << sink[n] >> ELSE << >>
    BY <1>1 DEF When
  <2>2. n \in Q <=> sink[n].rule = rule
    BY <1>1 DEF Ruled
  <2> HIDE DEF ss, Q
  <2>3. << sink[n] >> \in Seq(Rejected) /\ << >> \in Seq(Rejected)
    BY <1>1, EmptySeq, SeqDef
  <2>4. \A r : r \in ToSet(<< sink[n] >>) <=> r = sink[n]
    BY DEF ToSet
  <2>5. ToSet(<< >>) = {}
    BY DEF ToSet
  <2>6. CASE sink[n].rule = rule
    BY <2>1, <2>2, <2>3, <2>4, <2>6
  <2>7. CASE sink[n].rule # rule
    BY <2>1, <2>2, <2>3, <2>5, <2>7
  <2> QED BY <2>6, <2>7
<1>3. ss \in [1 .. m -> Seq(Rejected)]
  <2>1. ss = [n \in 1 .. m |-> ss[n]]
    BY <1>1
  <2> HIDE DEF ss
  <2> QED BY <1>2, <2>1
<1>4. Under(rule) = FlattenSeq(ss)
  BY DEF Under
<1>5. Q \in SUBSET (1 .. m)
  BY <1>1 DEF Ruled
<1> HIDE DEF ss, m, Q
<1>6. ss \in Seq(Seq(Rejected)) /\ Len(ss) = m
  BY <1>1, <1>3, SeqDef
<1>7. FlattenSeq(ss) \in Seq(Rejected)
  BY <1>6, FlattenType
<1>8. ASSUME NEW r PROVE r \in ToSet(FlattenSeq(ss)) <=> r \in ToSet(sink) /\ r.rule = rule
  <2>1. r \in ToSet(FlattenSeq(ss)) <=> \E n \in 1 .. m : r \in ToSet(ss[n])
    BY <1>6, FlattenElements
  <2>2. r \in ToSet(sink) <=> \E n \in 1 .. m : r = sink[n]
    BY <1>1 DEF ToSet
  <2> QED BY <1>2, <2>1, <2>2
<1>9. Parts(ss, m, Rejected) /\ MarkedBy(ss, sink, Q, m)
  BY <1>1, <1>2, <1>3 DEF Parts, MarkedBy
<1>10. /\ Len(FlattenSeq(ss)) = Cardinality(Q)
       /\ \A n \in Q : FlattenSeq(ss)[CountTo(Q, n)] = sink[n]
  BY <1>5, <1>9, FlattenMarked
<1> QED BY <1>4, <1>7, <1>8, <1>10 DEF Q

(* The places of the sink whose rules rank at most i.                      *)
RankedTo(i) == {n \in DOMAIN sink : Rank(sink[n].rule) <= i}

(* The sink taken apart by rank.                                           *)
LEMMA RankParts ==
    ASSUME sink \in Seq(Rejected)
    PROVE  /\ RankedTo(0) = {} /\ RankedTo(26) = DOMAIN sink
           /\ \A i \in 0 .. 26 : /\ IsFiniteSet(RankedTo(i))
                                 /\ Cardinality(RankedTo(i)) \in Nat
           /\ \A i \in 1 .. 26 :
                 /\ Cardinality(RankedTo(i)) = Cardinality(RankedTo(i - 1))
                                                   + Cardinality(Ruled(CoverageClasses[i]))
                 /\ \A n \in Ruled(CoverageClasses[i]) :
                       PlaceInReport(n) = Cardinality(RankedTo(i - 1))
                                              + CountTo(Ruled(CoverageClasses[i]), n)
           /\ \A n \in DOMAIN sink : \E i \in 1 .. 26 : n \in Ruled(CoverageClasses[i])
<1>1. DOMAIN sink = 1 .. Len(sink) /\ Len(sink) \in Nat /\ \A n \in DOMAIN sink : sink[n] \in Rejected
  BY LenProperties, ElementOfSeq
<1> DEFINE rank(n) == Rank(sink[n].rule)
           K(i) == Ruled(CoverageClasses[i])
<1>2. ASSUME NEW n \in DOMAIN sink
      PROVE  rank(n) \in 1 .. 26 /\ \A i \in 1 .. 26 : n \in K(i) <=> rank(n) = i
  <2>1. PICK j \in 1 .. 26 : sink[n].rule = CoverageClasses[j]
    BY <1>1, ClassesApart DEF Rejected, Of, Classes
  <2>2. rank(n) = j
    BY <2>1, RankIs
  <2>3. \A i \in 1 .. 26 : CoverageClasses[i] = CoverageClasses[j] <=> i = j
    BY ClassesApart
  <2> HIDE DEF rank
  <2> QED BY <2>1, <2>2, <2>3 DEF Ruled
<1>3. ASSUME NEW i PROVE IsFiniteSet(RankedTo(i)) /\ Cardinality(RankedTo(i)) \in Nat
  BY PlacesFinite DEF RankedTo
<1>4. \A i : \A n : n \in RankedTo(i) <=> n \in DOMAIN sink /\ rank(n) <= i
  BY DEF RankedTo
<1>5. \A i : K(i) \subseteq DOMAIN sink
  BY DEF Ruled
<1>6. \A m, n \in DOMAIN sink :
          NotAfter(m, n) <=> rank(m) < rank(n) \/ (rank(m) = rank(n) /\ m <= n)
  BY DEF NotAfter
<1>7. \A n : PlaceInReport(n) = Cardinality({m \in DOMAIN sink : NotAfter(m, n)})
  BY DEF PlaceInReport
<1> HIDE DEF rank, K
<1>8. RankedTo(0) = {} /\ RankedTo(26) = DOMAIN sink
  <2>1. ASSUME NEW n \in DOMAIN sink PROVE ~(rank(n) <= 0) /\ rank(n) <= 26
    <3>1. \A r \in 1 .. 26 : ~(r <= 0) /\ r <= 26
      OBVIOUS
    <3>2. rank(n) \in 1 .. 26
      BY <1>2
    <3> QED BY ONLY <3>1, <3>2
  <2> QED BY <1>4, <2>1
<1>9. ASSUME NEW i \in 1 .. 26, NEW B \in SUBSET K(i)
      PROVE  Cardinality(RankedTo(i - 1) \cup B) = Cardinality(RankedTo(i - 1)) + Cardinality(B)
  <2>1. B \in SUBSET DOMAIN sink
    BY <1>5
  <2>2. IsFiniteSet(B) /\ Cardinality(B) \in Nat
    BY <2>1, PlacesFinite
  <2>3. RankedTo(i - 1) \cap B = {}
    <3>1. ASSUME NEW n \in B PROVE n \notin RankedTo(i - 1)
      <4>1. rank(n) = i
        BY <1>2, <2>1
      <4>2. ~(rank(n) <= i - 1)
        BY <4>1
      <4> QED BY <1>4, <4>2
    <3> QED BY <3>1
  <2>4. Cardinality(RankedTo(i - 1) \cap B) = 0
    BY <2>3, FS_EmptySet
  <2>5. IsFiniteSet(RankedTo(i - 1)) /\ Cardinality(RankedTo(i - 1)) \in Nat
    BY <1>3
  <2>6. Cardinality(RankedTo(i - 1) \cup B)
            = Cardinality(RankedTo(i - 1)) + Cardinality(B) - Cardinality(RankedTo(i - 1) \cap B)
    BY <2>2, <2>5, FS_Union
  <2> QED BY <2>2, <2>4, <2>5, <2>6
<1>10. ASSUME NEW i \in 1 .. 26
       PROVE  Cardinality(RankedTo(i)) = Cardinality(RankedTo(i - 1)) + Cardinality(K(i))
  <2>1. ASSUME NEW n \in DOMAIN sink
        PROVE  n \in RankedTo(i) <=> n \in RankedTo(i - 1) \cup K(i)
    <3>1. rank(n) \in 1 .. 26 /\ (n \in K(i) <=> rank(n) = i)
      BY <1>2
    <3>2. rank(n) <= i <=> rank(n) <= i - 1 \/ rank(n) = i
      <4>1. \A r \in 1 .. 26 : r <= i <=> r <= i - 1 \/ r = i
        OBVIOUS
      <4> QED BY ONLY <3>1, <4>1
    <3> QED BY <1>4, <3>1, <3>2
  <2>2. RankedTo(i) = RankedTo(i - 1) \cup K(i)
    BY <1>4, <1>5, <2>1
  <2> QED BY <1>9, <2>2
<1>11. ASSUME NEW i \in 1 .. 26, NEW n \in K(i)
       PROVE  PlaceInReport(n) = Cardinality(RankedTo(i - 1)) + CountTo(K(i), n)
  <2> DEFINE B == K(i) \cap (1 .. n)
  <2>1. n \in DOMAIN sink /\ n \in 1 .. Len(sink) /\ rank(n) = i
    BY <1>1, <1>2, <1>5
  <2>2. ASSUME NEW m \in DOMAIN sink PROVE NotAfter(m, n) <=> m \in RankedTo(i - 1) \cup B
    <3>1. m \in 1 .. n <=> m <= n
      BY <1>1, <2>1
    <3>2. rank(m) \in 1 .. 26 /\ (m \in K(i) <=> rank(m) = i)
      BY <1>2
    <3>3. rank(m) < i <=> rank(m) <= i - 1
      <4>1. \A r \in 1 .. 26 : r < i <=> r <= i - 1
        OBVIOUS
      <4> QED BY ONLY <3>2, <4>1
    <3>4. NotAfter(m, n) <=> rank(m) < i \/ (rank(m) = i /\ m <= n)
      BY <1>6, <2>1
    <3> QED BY <1>4, <3>1, <3>2, <3>3, <3>4
  <2>3. RankedTo(i - 1) \cup B \subseteq DOMAIN sink
    BY <1>4, <1>5
  <2>4. CountTo(K(i), n) = Cardinality(B)
    BY DEF CountTo
  <2>5. B \in SUBSET K(i)
    OBVIOUS
  <2> HIDE DEF B
  <2>6. {m \in DOMAIN sink : NotAfter(m, n)} = RankedTo(i - 1) \cup B
    BY <2>2, <2>3
  <2> QED BY <1>7, <1>9, <2>4, <2>5, <2>6
<1>12. \A n \in DOMAIN sink : \E i \in 1 .. 26 : n \in K(i)
  BY <1>2
<1> QED BY <1>3, <1>8, <1>10, <1>11, <1>12 DEF K

(* The sorted sink is the sink, each rejection in its place.               *)
LEMMA SortedIs ==
    ASSUME sink \in Seq(Rejected)
    PROVE  /\ SortedSink \in Seq(Rejected)
           /\ ToSet(SortedSink) = ToSet(sink)
           /\ Len(SortedSink) = Len(sink)
           /\ \A n \in DOMAIN sink : SortedSink[PlaceInReport(n)] = sink[n]
<1>0. PICK m \in Nat : m = 26
  OBVIOUS
<1> DEFINE ss == [i \in 1 .. m |-> Under(CoverageClasses[i])]
           c == [i \in 0 .. m |-> Cardinality(RankedTo(i))]
           K(i) == Ruled(CoverageClasses[i])
<1>1. SortedSink = FlattenSeq(ss)
  BY <1>0, ClassesApart DEF SortedSink
<1>2. \A i \in 1 .. m : ss[i] = Under(CoverageClasses[i])
  OBVIOUS
<1>3. ss \in [1 .. m -> Seq(Rejected)]
  BY UnderRule
<1> HIDE DEF ss
<1>4. \A i \in 1 .. m : /\ Len(ss[i]) = Cardinality(K(i))
                        /\ \A n \in K(i) : ss[i][CountTo(K(i), n)] = sink[n]
  BY <1>2, UnderRule
<1>5. ss \in Seq(Seq(Rejected)) /\ Len(ss) = m
  BY <1>3, SeqDef
<1>6. FlattenSeq(ss) \in Seq(Rejected)
  BY <1>5, FlattenType
<1>7. ASSUME NEW r PROVE r \in ToSet(FlattenSeq(ss)) <=> r \in ToSet(sink)
  <2>1. r \in ToSet(FlattenSeq(ss)) <=> \E i \in 1 .. m : r \in ToSet(ss[i])
    BY <1>5, FlattenElements
  <2>2. \A i \in 1 .. m : r \in ToSet(ss[i]) <=> r \in ToSet(sink) /\ r.rule = CoverageClasses[i]
    BY <1>2, UnderRule
  <2>3. ASSUME r \in ToSet(sink) PROVE \E i \in 1 .. m : r.rule = CoverageClasses[i]
    <3>1. r \in Rejected
      BY <2>3, LenProperties, ElementOfSeq DEF ToSet
    <3> QED BY <1>0, <3>1, ClassesApart DEF Rejected, Of, Classes
  <2> QED BY <2>1, <2>2, <2>3
<1>8. /\ \A i \in 0 .. m : c[i] = Cardinality(RankedTo(i)) /\ c[i] \in Nat
      /\ c[0] = 0 /\ c[m] = Len(sink)
  <2>1. Cardinality(DOMAIN sink) = Len(sink)
    <3>1. DOMAIN sink = 1 .. Len(sink) /\ Len(sink) \in Nat
      BY LenProperties
    <3> QED BY <3>1, FS_Interval
  <2>2. 0 \in 0 .. m /\ m \in 0 .. m
    OBVIOUS
  <2> QED BY <1>0, <2>1, <2>2, RankParts, FS_EmptySet
<1>9. c \in [0 .. m -> Nat]
  BY <1>8
<1> HIDE DEF c
<1>10. ASSUME NEW i \in 1 .. m PROVE c[i] = c[i - 1] + Len(ss[i])
  <2>1. i \in 1 .. 26 /\ i \in 0 .. m /\ i - 1 \in 0 .. m
    BY <1>0
  <2>2. Cardinality(RankedTo(i)) = Cardinality(RankedTo(i - 1)) + Cardinality(K(i))
    BY <2>1, RankParts
  <2> QED BY <1>4, <1>8, <2>1, <2>2
<1>11. StandsTo(FlattenSeq(ss), c, ss, m)
  <2>1. Parts(ss, m, Rejected) /\ Reach(c, ss, m)
    BY <1>3, <1>8, <1>9, <1>10 DEF Parts, Reach
  <2> QED BY <2>1, FlattenAt
<1>12. ASSUME NEW n \in DOMAIN sink PROVE FlattenSeq(ss)[PlaceInReport(n)] = sink[n]
  <2>1. PICK i \in 1 .. 26 : n \in K(i)
    BY RankParts
  <2>2. i \in 1 .. m /\ i - 1 \in 0 .. m
    BY <1>0
  <2>3. PlaceInReport(n) = c[i - 1] + CountTo(K(i), n)
    <3>1. PlaceInReport(n) = Cardinality(RankedTo(i - 1)) + CountTo(K(i), n)
      BY <2>1, RankParts
    <3> QED BY <1>8, <2>2, <3>1
  <2>4. CountTo(K(i), n) \in 1 .. Len(ss[i])
    <3>1. Len(sink) \in Nat /\ K(i) \in SUBSET (1 .. Len(sink))
      BY LenProperties DEF Ruled
    <3>2. CountTo(K(i), n) \in 1 .. Cardinality(K(i))
      <4> HIDE DEF K
      <4> QED BY <2>1, <3>1, CountGrows
    <3> QED BY <1>4, <2>2, <3>2
  <2>5. FlattenSeq(ss)[c[i - 1] + CountTo(K(i), n)] = ss[i][CountTo(K(i), n)]
    <3> HIDE DEF K
    <3> QED BY <1>11, <2>2, <2>4 DEF StandsTo
  <2> QED BY <1>4, <2>1, <2>2, <2>3, <2>5
<1> QED BY <1>1, <1>6, <1>7, <1>8, <1>11, <1>12 DEF StandsTo

-----------------------------------------------------------------------------
(* The report is made once, of the sink as it is then.                     *)
ReportMade ==
    phase = "done" => report = [verdict |-> Verdict, rejections |-> SortedSink]

(* Reading an element does not end the run.                                *)
LEMMA ElementGoesOn ==
    ASSUME NEW el \in ElementSet, ReadElement(el), ~ToolError
    PROVE  phase = "elements" /\ phase' = "elements"
  BY DEF ReadElement, Barrier, ShiftPhase, SetFrequency, Delay, Capture, Play, PlayWaveform,
         PlayTones, Reads

(* Every step but the last one leaves the run without a report.            *)
LEMMA StepReportMade ==
    ASSUME ReportMade, [Next]_vars PROVE ReportMade'
<1>1. CASE Finish
  <2>1. sink' = sink /\ report' = [verdict |-> Verdict, rejections |-> SortedSink]
    BY <1>1 DEF Finish
  <2>2. Verdict' = Verdict
    BY <2>1 DEF Verdict, AnyFatal
  <2>3. SortedSink' = SortedSink
    BY <2>1 DEF SortedSink, Under
  <2> QED BY <2>1, <2>2, <2>3 DEF ReportMade
<1>2. CASE Idle \/ UNCHANGED vars
  <2>1. UNCHANGED vars
    BY <1>2 DEF Idle
  <2>2. sink' = sink /\ report' = report /\ phase' = phase
    BY <2>1 DEF vars
  <2>3. Verdict' = Verdict
    BY <2>2 DEF Verdict, AnyFatal
  <2>4. SortedSink' = SortedSink
    BY <2>2 DEF SortedSink, Under
  <2> QED BY <2>2, <2>3, <2>4 DEF ReportMade
<1>3. CASE ToolError
  BY <1>3 DEF ToolError, ReportMade
<1>4. CASE (\E el \in ElementSet : ReadElement(el)) /\ ~ToolError
  BY <1>4, ElementGoesOn DEF ReportMade
<1>5. CASE (Bind \/ EndOfProgram \/ CloseSlots \/ CloseSpacing) /\ ~ToolError
  BY <1>5 DEF Bind, EndOfProgram, CloseSlots, CloseSpacing, ReportMade
<1>6. CASE (SkipBudget \/ CountBudget) /\ ~ToolError
  BY <1>6 DEF SkipBudget, CountBudget, ReportMade
<1> QED BY <1>1, <1>2, <1>3, <1>4, <1>5, <1>6 DEF Next

(* The report of check(), for every program, device and bound: it is the   *)
(* sink sorted by rule and inside a rule in the order of addition, and its *)
(* verdict is the worst severity in it (report building at the end of      *)
(* check, and compare_entries).                                            *)
THEOREM ReportOrderedTheorem == HSpec => []ReportOrdered
<1>1. HInit => ReportMade
  BY DEF HInit, Init, ReportMade
<1>2. ReportMade /\ [HNext]_<< vars, before >> => ReportMade'
  <2> SUFFICES ASSUME ReportMade, [HNext]_<< vars, before >> PROVE ReportMade'
    OBVIOUS
  <2>1. [Next]_vars
    BY DEF HNext
  <2> QED BY <2>1, StepReportMade
<1>3. HInv /\ ReportMade => ReportOrdered
  <2> SUFFICES ASSUME sink \in Seq(Rejected), ReportMade, phase = "done" PROVE ReportOrdered
    BY DEF HInv, ReportOrdered
  <2> DEFINE out == report.rejections
  <2>1. report.verdict = Verdict /\ out = SortedSink
    BY DEF ReportMade
  <2> HIDE DEF out
  <2>2. /\ out \in Seq(Rejected) /\ ToSet(out) = ToSet(sink) /\ Len(out) = Len(sink)
        /\ \A n \in DOMAIN sink : out[PlaceInReport(n)] = sink[n]
    BY <2>1, SortedIs
  <2>3. \A n \in DOMAIN sink : sink[n] \in Rejected
    BY LenProperties, ElementOfSeq
  <2>4. ASSUME NEW n \in DOMAIN sink PROVE sink[n].rule \in Classes \ {"negative_time"}
    BY <2>3 DEF Rejected, Of
  <2>5. AnyFatal <=> \E n \in DOMAIN out : out[n].severity = "fatal"
    <3>1. AnyFatal <=> \E r \in ToSet(sink) : r.severity = "fatal"
      BY DEF AnyFatal, ToSet
    <3>2. (\E n \in DOMAIN out : out[n].severity = "fatal")
              <=> \E r \in ToSet(out) : r.severity = "fatal"
      BY DEF ToSet
    <3> QED BY <2>2, <3>1, <3>2
  <2>6. out = << >> <=> sink = << >>
    BY <2>2, EmptySeq
  <2>7. out = << >> => ~\E n \in DOMAIN out : out[n].severity = "fatal"
    OBVIOUS
  <2>8. report.verdict = CASE \E n \in DOMAIN out : out[n].severity = "fatal" -> "fail"
                            [] out = << >> -> "pass"
                            [] OTHER -> "pass_with_repairs"
    <3>1. CASE AnyFatal
      <4>1. (\E n \in DOMAIN out : out[n].severity = "fatal") /\ out # << >>
        BY <2>5, <2>7, <3>1
      <4> QED BY <2>1, <3>1, <4>1 DEF Verdict
    <3>2. CASE ~AnyFatal
      <4>1. ~(\E n \in DOMAIN out : out[n].severity = "fatal")
        BY <2>5, <3>2
      <4> QED BY <2>1, <2>6, <3>2, <4>1 DEF Verdict
    <3> QED BY <3>1, <3>2
  <2> QED BY <2>2, <2>4, <2>8 DEF ReportOrdered, out
<1> QED BY <1>1, <1>2, <1>3, HistoryTheorem, PTL DEF HSpec

(* Of every descriptor that validate_descriptor accepts, and so of every   *)
(* report: a rejection names a repair when, and only when, the vendor      *)
(* repairs it (documentation/report-format-v0.txt; the severities of       *)
(* severity_rule_for and what the emit sites of check.c add).              *)
ReportPaired ==
    phase = "done" => \A n \in DOMAIN report.rejections : Paired(report.rejections[n])

THEOREM ReportPairedTheorem == HSpec => []ReportPaired
<1>1. HInit => ReportMade
  BY DEF HInit, Init, ReportMade
<1>2. ReportMade /\ [HNext]_<< vars, before >> => ReportMade'
  <2> SUFFICES ASSUME ReportMade, [HNext]_<< vars, before >> PROVE ReportMade'
    OBVIOUS
  <2>1. [Next]_vars
    BY DEF HNext
  <2> QED BY <2>1, StepReportMade
<1>3. HInv /\ ReportMade => ReportPaired
  <2> SUFFICES ASSUME sink \in Seq(Rejected), ReportMade, phase = "done", ValidDescriptor,
                      NEW n \in DOMAIN report.rejections
               PROVE  Paired(report.rejections[n])
    BY DEF HInv, ReportPaired
  <2> DEFINE out == report.rejections
  <2>1. out = SortedSink
    BY DEF ReportMade
  <2> HIDE DEF out
  <2>2. out \in Seq(Rejected)
    BY <2>1, SortedIs
  <2>3. out[n] \in Rejected
    BY <2>2, LenProperties, ElementOfSeq DEF out
  <2> QED BY <2>3 DEF Rejected, Of, out
<1> QED BY <1>1, <1>2, <1>3, HistoryTheorem, PTL DEF HSpec

-----------------------------------------------------------------------------
(* What a frame state counts: the places of the program that name the      *)
(* frame, and its outputs.                                                 *)
MentionsIn(p, f) ==
    UNION {{i} \X {j \in DOMAIN FramesOf(p[i]) : FramesOf(p[i])[j] = f} : i \in DOMAIN p}

Named(el, f) == {j \in DOMAIN FramesOf(el) : FramesOf(el)[j] = f}

One(condition) == IF condition THEN 1 ELSE 0

(* An element names a frame finitely often, one of a frame its own once.   *)
LEMMA NamedCount ==
    ASSUME NEW el \in ElementSet, NEW f
    PROVE  /\ IsFiniteSet(Named(el, f)) /\ Cardinality(Named(el, f)) \in Nat
           /\ el.kind # "barrier" => Cardinality(Named(el, f)) = One(f = el.frame)
<1>1. FramesOf(el) \in Seq(Frames)
  <2>1. CASE el.kind = "barrier"
    BY <2>1, MembersSequence DEF FramesOf
  <2>2. CASE el.kind # "barrier"
    <3>1. el.frame \in Frames
      BY <2>2, ElementFrame
    <3> QED BY <2>2, <3>1, SeqDef DEF FramesOf
  <2> QED BY <2>1, <2>2
<1>2. Named(el, f) \in SUBSET DOMAIN FramesOf(el)
  BY DEF Named
<1>3. IsFiniteSet(Named(el, f)) /\ Cardinality(Named(el, f)) \in Nat
  BY <1>1, <1>2, PlacesFinite
<1>4. ASSUME el.kind # "barrier" PROVE Cardinality(Named(el, f)) = One(f = el.frame)
  <2>1. FramesOf(el) = << el.frame >>
    BY <1>4 DEF FramesOf
  <2>2. Named(el, f) = IF f = el.frame THEN {1} ELSE {}
    BY <2>1 DEF Named
  <2> QED BY <2>2, FS_Singleton, FS_EmptySet DEF One
<1> QED BY <1>3, <1>4

(* A program that grows by an element names a frame that much oftener.     *)
LEMMA MentionsGrow ==
    ASSUME NEW p \in Seq(ElementSet), NEW el \in ElementSet, NEW f,
           IsFiniteSet(MentionsIn(p, f))
    PROVE  /\ IsFiniteSet(MentionsIn(Append(p, el), f))
           /\ Cardinality(MentionsIn(Append(p, el), f))
                  = Cardinality(MentionsIn(p, f)) + Cardinality(Named(el, f))
<1> DEFINE q == Append(p, el)
           n == Len(p) + 1
           More == {n} \X Named(el, f)
<1>1. /\ Len(p) \in Nat /\ DOMAIN q = 1 .. n /\ q[n] = el
      /\ \A i \in 1 .. Len(p) : q[i] = p[i]
  BY OneMore
<1>2. DOMAIN p = 1 .. Len(p)
  BY LenProperties
<1>3. \A x : x \in MentionsIn(p, f)
                 <=> \E i \in 1 .. Len(p) : x \in {i} \X Named(p[i], f)
  BY <1>2 DEF MentionsIn, Named
<1>4. \A x : x \in MentionsIn(q, f) <=> \E i \in 1 .. n : x \in {i} \X Named(q[i], f)
  BY <1>1 DEF MentionsIn, Named
<1> HIDE DEF q
<1>5. \A i \in 1 .. n : i \in 1 .. Len(p) \/ i = n
  BY <1>1
<1>6. \A i \in 1 .. Len(p) : i \in 1 .. n /\ i # n
  BY <1>1
<1>7. n \in 1 .. n
  BY <1>1
<1>8. MentionsIn(q, f) = MentionsIn(p, f) \cup More
  <2>1. ASSUME NEW x \in MentionsIn(q, f) PROVE x \in MentionsIn(p, f) \cup More
    <3>1. PICK i \in 1 .. n : x \in {i} \X Named(q[i], f)
      BY <1>4
    <3>2. CASE i = n
      BY <1>1, <3>1, <3>2
    <3>3. CASE i # n
      <4>1. i \in 1 .. Len(p) /\ q[i] = p[i]
        BY <1>1, <1>5, <3>3
      <4> QED BY <1>3, <3>1, <4>1
    <3> QED BY <3>2, <3>3
  <2>2. ASSUME NEW x \in MentionsIn(p, f) PROVE x \in MentionsIn(q, f)
    <3>1. PICK i \in 1 .. Len(p) : x \in {i} \X Named(p[i], f)
      BY <1>3
    <3>2. i \in 1 .. n /\ q[i] = p[i]
      BY <1>1, <1>6
    <3> QED BY <1>4, <3>1, <3>2
  <2>3. ASSUME NEW x \in More PROVE x \in MentionsIn(q, f)
    BY <1>1, <1>4, <1>7, <2>3
  <2> QED BY <2>1, <2>2, <2>3
<1>9. MentionsIn(p, f) \cap More = {}
  <2>1. ASSUME NEW x \in MentionsIn(p, f), x \in More PROVE FALSE
    <3>1. PICK i \in 1 .. Len(p) : x \in {i} \X Named(p[i], f)
      BY <1>3
    <3>2. x[1] = i /\ x[1] = n
      BY <2>1, <3>1
    <3> QED BY <1>6, <3>2
  <2> QED BY <2>1
<1>10. IsFiniteSet(More) /\ Cardinality(More) = Cardinality(Named(el, f))
  <2> DEFINE N == Named(el, f)
             g == [j \in N |-> << n, j >>]
  <2> HIDE DEF N
  <2>1. /\ g \in [N -> {n} \X N]
        /\ \A a, b \in N : g[a] = g[b] => a = b
        /\ \A y \in {n} \X N : \E a \in N : g[a] = y
    <3>1. g \in [N -> {n} \X N] /\ \A a, b \in N : g[a] = g[b] => a = b
      OBVIOUS
    <3>2. ASSUME NEW y \in {n} \X N PROVE \E a \in N : g[a] = y
      <4>1. y = << n, y[2] >> /\ y[2] \in N
        OBVIOUS
      <4> QED BY <4>1
    <3> QED BY <3>1, <3>2
  <2> HIDE DEF g
  <2>2. g \in Bijection(N, {n} \X N)
    BY <2>1, Fun_IsBij
  <2>3. ExistsBijection(N, {n} \X N)
    BY <2>2 DEF ExistsBijection
  <2>4. IsFiniteSet(N)
    BY NamedCount DEF N
  <2>5. IsFiniteSet({n} \X N) /\ Cardinality({n} \X N) = Cardinality(N)
    BY <2>3, <2>4, FS_Bijection
  <2> QED BY <2>5 DEF N
<1> HIDE DEF More
<1>11. /\ IsFiniteSet(MentionsIn(p, f) \cup More)
       /\ Cardinality(MentionsIn(p, f) \cup More)
              = Cardinality(MentionsIn(p, f)) + Cardinality(More) - Cardinality({})
  BY <1>9, <1>10, FS_Union
<1>12. Cardinality({}) = 0 /\ Cardinality(MentionsIn(p, f)) \in Nat /\ Cardinality(More) \in Nat
  BY <1>10, FS_EmptySet, FS_CardinalityType
<1> QED BY <1>8, <1>10, <1>11, <1>12 DEF q

(* A set of elements of the program that grows by its last one.            *)
LEMMA PlaceAdded ==
    ASSUME NEW p \in Seq(ElementSet), NEW A \in SUBSET DOMAIN p, NEW condition
    PROVE  LET B == A \cup IF condition THEN {Len(p) + 1} ELSE {}
           IN  Cardinality(B) = Cardinality(A) + One(condition) /\ Cardinality(A) \in Nat
<1>1. IsFiniteSet(A) /\ Cardinality(A) \in Nat
  BY PlacesFinite
<1>2. Len(p) + 1 \notin A
  BY LenProperties
<1>3. Cardinality(A \cup {Len(p) + 1}) = Cardinality(A) + 1
  BY <1>1, <1>2, FS_AddElement
<1>4. A \cup {} = A
  OBVIOUS
<1>5. CASE condition
  BY <1>1, <1>3, <1>5 DEF One
<1>6. CASE ~condition
  BY <1>1, <1>4, <1>6 DEF One
<1> QED BY <1>5, <1>6

-----------------------------------------------------------------------------
(* What the handlers count. *)
Counts(st, after, elements, played) ==
    after.nElements = st.nElements + elements /\ after.nOutputs = st.nOutputs + played

(* Noting an operation, advancing and a first use count nothing.           *)
LEMMA CountsKept ==
    ASSUME NEW st \in FrameRecord
    PROVE  /\ \A f, e, kind : LET n == Noted(f, st, e, kind)
                              IN  n.nElements = st.nElements /\ n.nOutputs = st.nOutputs
           /\ \A f, n : LET a == Advanced(f, st, n)
                        IN  a.nElements = st.nElements /\ a.nOutputs = st.nOutputs
           /\ \A f : LET u == FirstUse(f, st)
                     IN  u.nElements = st.nElements /\ u.nOutputs = st.nOutputs
           /\ Counted(st).nElements = st.nElements + 1 /\ Counted(st).nOutputs = st.nOutputs
<1>1. \A f, e, kind : LET n == Noted(f, st, e, kind)
                      IN  n.nElements = st.nElements /\ n.nOutputs = st.nOutputs
  BY DEF Noted, FrameRecord
<1>2. \A f, n : LET a == Advanced(f, st, n)
                IN  a.nElements = st.nElements /\ a.nOutputs = st.nOutputs
  BY DEF Advanced, FrameRecord
<1>3. \A f : LET u == FirstUse(f, st)
             IN  u.nElements = st.nElements /\ u.nOutputs = st.nOutputs
  BY DEF FirstUse, FrameRecord
<1>4. Counted(st).nElements = st.nElements + 1 /\ Counted(st).nOutputs = st.nOutputs
  BY DEF Counted, FrameRecord
<1> QED BY <1>1, <1>2, <1>3, <1>4

(* An output counts as an element and as an output.                        *)
LEMMA OutputCounts ==
    ASSUME NEW el, NEW kind, states[el.frame] \in FrameRecord, Element \in Nat
    PROVE  Counts(states[el.frame], OutputState(el, kind), 1, 1)
<1> DEFINE f  == el.frame
           st == states[f]
           s1 == [Counted(st) EXCEPT !.nOutputs = @ + 1]
           s2 == FirstUse(f, s1)
           s3 == Noted(f, s2, Element, kind)
<1>1. Counted(st) \in FrameRecord /\ s1 \in FrameRecord
  BY CountedAlike
<1>2. s1.nElements = Counted(st).nElements /\ s1.nOutputs = Counted(st).nOutputs + 1
  <2> DEFINE counted == Counted(st)
  <2> HIDE DEF counted
  <2>1. counted \in FrameRecord
    BY <1>1 DEF counted
  <2>2. LET o == [counted EXCEPT !.nOutputs = @ + 1]
        IN  o.nElements = counted.nElements /\ o.nOutputs = counted.nOutputs + 1
    BY <2>1 DEF FrameRecord
  <2> QED BY <2>2 DEF counted
<1>3. Counted(st).nElements = st.nElements + 1 /\ Counted(st).nOutputs = st.nOutputs
  BY CountsKept
<1> HIDE DEF s1
<1>4. s2 \in FrameRecord /\ s2.nElements = s1.nElements /\ s2.nOutputs = s1.nOutputs
  BY <1>1, FirstUseRecord, CountsKept
<1> HIDE DEF s2
<1>5. s3 \in FrameRecord /\ s3.nElements = s2.nElements /\ s3.nOutputs = s2.nOutputs
  BY <1>4, NotedRecord, CountsKept
<1> HIDE DEF s3
<1>6. OutputState(el, kind) = Advanced(f, s3, el.duration)
  BY DEF OutputState, s1, s2, s3
<1>7. LET a == Advanced(f, s3, el.duration)
      IN  a.nElements = s3.nElements /\ a.nOutputs = s3.nOutputs
  BY <1>5, CountsKept
<1> QED BY <1>2, <1>3, <1>4, <1>5, <1>6, <1>7 DEF Counts

(* Every element of one frame counts itself and, if it is one, an output.  *)
LEMMA ElementCounts ==
    ASSUME IInv, NEW el \in ElementSet, ReadElement(el), el.kind # "barrier", ~ToolError
    PROVE  \E after : /\ Counts(states[el.frame], after, 1, One(el.kind \in Outputs))
                      /\ states' = StateAfter(el.frame, after)
<1> DEFINE f  == el.frame
           st == states[f]
           Goal == \E after : /\ Counts(st, after, 1, One(el.kind \in Outputs))
                              /\ states' = StateAfter(f, after)
<1>1. ASSUME NEW kind, Reads(el, kind), kind # "barrier"
      PROVE  /\ st \in FrameRecord /\ Element \in Nat /\ el.kind = kind
             /\ Counted(st) \in FrameRecord /\ st.nOutputs \in Nat
             /\ Counted(st).nElements = st.nElements + 1 /\ Counted(st).nOutputs = st.nOutputs
  <2>1. /\ st \in FrameRecord /\ Element \in Nat /\ el.kind = kind
        /\ Counted(st) \in FrameRecord
    BY <1>1, Reading
  <2>2. st.nOutputs \in Nat
    BY <2>1 DEF FrameRecord
  <2> QED BY <2>1, <2>2, CountsKept
<1>2. ASSUME ShiftPhase(el) \/ SetFrequency(el) PROVE Goal
  <2> DEFINE kind == IF ShiftPhase(el) THEN "shift_phase" ELSE "set_frequency"
             noted(k) == Noted(f, Counted(st), Element, k)
  <2>1. Reads(el, kind) /\ kind # "barrier" /\ kind \notin Outputs
    BY <1>2 DEF ShiftPhase, SetFrequency, Outputs
  <2>2. \A k : /\ noted(k) \in FrameRecord /\ noted(k).nElements = st.nElements + 1
               /\ noted(k).nOutputs = st.nOutputs
    BY <1>1, <2>1, NotedRecord, CountsKept
  <2>3. One(el.kind \in Outputs) = 0
    BY <1>1, <2>1 DEF One
  <2>4. CASE ShiftPhase(el)
    <3> DEFINE after == [noted("phase") EXCEPT !.phase = @ + el.phase]
    <3>1. states' = StateAfter(f, after)
      BY <2>4 DEF ShiftPhase
    <3>2. after.nElements = noted("phase").nElements /\ after.nOutputs = noted("phase").nOutputs
      <4> HIDE DEF noted
      <4> QED BY <2>2 DEF FrameRecord
    <3>3. Counts(st, after, 1, 0)
      <4> HIDE DEF after
      <4> QED BY <1>1, <2>1, <2>2, <3>2 DEF Counts
    <3> QED BY <2>3, <3>1, <3>3
  <2>5. CASE SetFrequency(el)
    <3> DEFINE after == Retuned(f, noted("frequency"), el.frequency)
    <3>1. states' = StateAfter(f, after)
      BY <2>5 DEF SetFrequency
    <3>2. /\ after.nElements = noted("frequency").nElements
          /\ after.nOutputs = noted("frequency").nOutputs
      <4> HIDE DEF noted
      <4> QED BY <2>2 DEF FrameRecord, Retuned
    <3>3. Counts(st, after, 1, 0)
      <4> HIDE DEF after
      <4> QED BY <1>1, <2>1, <2>2, <3>2 DEF Counts
    <3> QED BY <2>3, <3>1, <3>3
  <2> QED BY <1>2, <2>4, <2>5
<1>3. ASSUME Delay(el) PROVE Goal
  <2> DEFINE after == Advanced(f, Counted(st), el.duration)
  <2>1. Reads(el, "delay") /\ states' = StateAfter(f, after)
    BY <1>3 DEF Delay
  <2>2. /\ el.kind = "delay" /\ st.nOutputs \in Nat /\ Counted(st) \in FrameRecord
        /\ Counted(st).nElements = st.nElements + 1 /\ Counted(st).nOutputs = st.nOutputs
    BY <1>1, <2>1
  <2>3. after.nElements = Counted(st).nElements /\ after.nOutputs = Counted(st).nOutputs
    BY <2>2, CountsKept
  <2> HIDE DEF after
  <2>4. Counts(st, after, 1, One(el.kind \in Outputs))
    BY <2>2, <2>3 DEF Counts, One, Outputs
  <2> QED BY <2>1, <2>4
<1>4. ASSUME Capture(el) PROVE Goal
  <2> DEFINE out == OutputState(el, "capture")
             units == DurationUnits(f, el.duration)
             after == IF FixesLength(f, st) THEN [out EXCEPT !.captureLength = units] ELSE out
  <2>1. Reads(el, "capture") /\ states' = StateAfter(f, after)
    BY <1>4 DEF Capture
  <2>2. el.kind = "capture" /\ Counts(st, out, 1, 1) /\ out \in FrameRecord
    <3>1. /\ st \in FrameRecord /\ Element \in Nat /\ el.kind = "capture"
      BY <1>1, <2>1
    <3>2. out \in FrameRecord
      <4>1. Typed /\ DOMAIN Channels \subseteq DOMAIN Device
        BY <2>1, Reading
      <4> QED BY <3>1, <4>1, OutputStateRecord
    <3> QED BY <3>1, <3>2, OutputCounts
  <2>3. after.nElements = out.nElements /\ after.nOutputs = out.nOutputs
    <3> HIDE DEF out, units
    <3> QED BY <2>2 DEF FrameRecord
  <2> HIDE DEF after, out
  <2>4. Counts(st, after, 1, One(el.kind \in Outputs))
    BY <2>2, <2>3 DEF Counts, One, Outputs
  <2> QED BY <2>1, <2>4
<1>5. ASSUME Play(el) PROVE Goal
  <2> DEFINE after == OutputState(el, "output")
  <2>1. Reads(el, "play") /\ states' = StateAfter(f, after)
    BY <1>5 DEF Play, PlayWaveform, PlayTones
  <2>2. el.kind = "play" /\ Counts(st, after, 1, 1)
    BY <1>1, <2>1, OutputCounts
  <2> HIDE DEF after
  <2>3. Counts(st, after, 1, One(el.kind \in Outputs))
    BY <2>2 DEF One, Outputs
  <2> QED BY <2>1, <2>3
<1>6. ~Barrier(el)
  BY DEF Barrier, Reads
<1> QED BY <1>2, <1>3, <1>4, <1>5, <1>6 DEF ReadElement

(* So does a barrier, of every frame it names.                             *)
LEMMA ElementCountsFrames ==
    ASSUME IInv, NEW el \in ElementSet, ReadElement(el), ~ToolError, NEW f \in Frames
    PROVE  Counts(states[f], states'[f], Cardinality(Named(el, f)),
                  One(el.kind \in Outputs /\ el.frame = f))
<1>1. states \in [Frames -> FrameRecord] /\ states[f] \in FrameRecord
      /\ states[f].nElements \in Nat /\ states[f].nOutputs \in Nat
  BY DEF IInv, Typed, FrameRecord
<1>2. CASE el.kind # "barrier"
  <2>1. PICK after : /\ Counts(states[el.frame], after, 1, One(el.kind \in Outputs))
                     /\ states' = StateAfter(el.frame, after)
    BY <1>2, ElementCounts
  <2>2. Cardinality(Named(el, f)) = One(f = el.frame)
    BY <1>2, NamedCount
  <2>3. CASE f = el.frame
    <3>1. states'[f] = after
      BY <1>1, <2>1, <2>3 DEF StateAfter
    <3> QED BY <2>1, <2>2, <2>3, <3>1 DEF One
  <2>4. CASE f # el.frame
    <3>1. states'[f] = states[f]
      BY <1>1, <2>1, <2>4 DEF StateAfter
    <3> QED BY <1>1, <2>2, <2>4, <3>1 DEF One, Counts
  <2> QED BY <2>3, <2>4
<1>3. CASE el.kind = "barrier"
  <2>1. Barrier(el)
    BY <1>3 DEF ReadElement, ShiftPhase, SetFrequency, Delay, Capture, Play, Reads
  <2>2. PICK t \in MemberTimes(el) :
           states' = [g \in Frames |-> IF g \in MemberSet(el) THEN Joined(g, el, t) ELSE states[g]]
    BY <2>1 DEF Barrier
  <2>3. Named(el, f) = {i \in DOMAIN Members(el) : Members(el)[i] = f}
    BY <1>3 DEF Named, FramesOf
  <2>4. One(el.kind \in Outputs /\ el.frame = f) = 0
    BY <1>3 DEF One, Outputs
  <2>5. CASE f \in MemberSet(el)
    <3>1. states'[f] = [states[f] EXCEPT !.clock = Aligned(f, t),
                                         !.nElements = @ + Cardinality(Named(el, f))]
      BY <2>2, <2>3, <2>5 DEF Joined
    <3>2. PICK n \in Nat : n = Cardinality(Named(el, f))
      BY NamedCount
    <3>3. states'[f] = [states[f] EXCEPT !.clock = Aligned(f, t), !.nElements = @ + n]
      BY <3>1, <3>2
    <3>4. states'[f].nElements = states[f].nElements + n /\ states'[f].nOutputs = states[f].nOutputs
      BY <1>1, <3>3 DEF FrameRecord
    <3> QED BY <1>1, <2>4, <3>2, <3>4 DEF Counts
  <2>6. CASE f \notin MemberSet(el)
    <3>1. states'[f] = states[f]
      BY <2>2, <2>6
    <3>2. Named(el, f) = {}
      BY <2>3, <2>6 DEF MemberSet
    <3>3. Cardinality(Named(el, f)) = 0
      BY <3>2, FS_EmptySet
    <3> QED BY <1>1, <2>4, <3>1, <3>3 DEF Counts
  <2> QED BY <2>5, <2>6
<1> QED BY <1>2, <1>3

(* What the program played on all frames together.                         *)
OutputsOf(p) == {i \in DOMAIN p : p[i].kind \in Outputs}

PlaysWaveform(el) == el.kind = "play" /\ ~HasTones(ChannelOf(el.frame))

PlayedBy(p) == {p[i].waveform : i \in {i \in DOMAIN p : PlaysWaveform(p[i])}}

(* An element plays a waveform, or it does not.                            *)
LEMMA ElementPlays ==
    ASSUME IInv, NEW el \in ElementSet, ReadElement(el), ~ToolError
    PROVE  /\ outputs' = outputs + One(el.kind \in Outputs)
           /\ wfPlayed' = wfPlayed \cup IF PlaysWaveform(el) THEN {el.waveform} ELSE {}
<1>0. outputs \in Nat
  BY DEF IInv, Typed
<1>1. CASE Capture(el)
  <2>1. el.kind = "capture" /\ outputs' = outputs + 1 /\ wfPlayed' = wfPlayed
    BY <1>1 DEF Capture, Reads
  <2> QED BY <2>1 DEF Outputs, One, PlaysWaveform
<1>2. CASE Play(el)
  <2>1. el.kind = "play" /\ outputs' = outputs + 1
    BY <1>2 DEF Play, Reads, PlayWaveform, PlayTones
  <2>2. CASE PlayWaveform(el)
    <3>1. ~HasTones(ChannelOf(el.frame)) /\ wfPlayed' = wfPlayed \cup {el.waveform}
      BY <2>2 DEF PlayWaveform
    <3> QED BY <2>1, <3>1 DEF Outputs, One, PlaysWaveform
  <2>3. CASE PlayTones(el)
    <3>1. HasTones(ChannelOf(el.frame)) /\ wfPlayed' = wfPlayed
      BY <2>3 DEF PlayTones
    <3> QED BY <2>1, <3>1 DEF Outputs, One, PlaysWaveform
  <2> QED BY <1>2, <2>2, <2>3 DEF Play
<1>3. CASE Barrier(el) \/ ShiftPhase(el) \/ SetFrequency(el) \/ Delay(el)
  <2>1. /\ el.kind \in {"barrier", "shift_phase", "set_frequency", "delay"}
        /\ outputs' = outputs /\ wfPlayed' = wfPlayed
    BY <1>3 DEF Barrier, ShiftPhase, SetFrequency, Delay, Reads, envVars
  <2> QED BY <1>0, <2>1 DEF Outputs, One, PlaysWaveform
<1> QED BY <1>1, <1>2, <1>3 DEF ReadElement

(* The counters say what the program holds.                                *)
CountsRight ==
    /\ \A f \in Frames :
          /\ IsFiniteSet(MentionsIn(prog, f))
          /\ states[f].nElements = Cardinality(MentionsIn(prog, f))
          /\ states[f].nOutputs = Cardinality(Placed(prog, f, Outputs))
    /\ outputs = Cardinality(OutputsOf(prog))
    /\ wfPlayed = PlayedBy(prog)

(* An element is counted as what it is.                                    *)
LEMMA ElementCountsRight ==
    ASSUME IInv, CountsRight, NEW el \in ElementSet, ReadElement(el), ~ToolError
    PROVE  CountsRight'
<1>1. prog' = Append(prog, el) /\ prog \in Seq(ElementSet)
  BY ElementMoves DEF IInv, Typed
<1>2. /\ Len(prog) \in Nat /\ DOMAIN prog' = 1 .. Len(prog) + 1 /\ prog'[Len(prog) + 1] = el
      /\ \A i \in 1 .. Len(prog) : prog'[i] = prog[i]
      /\ DOMAIN prog = 1 .. Len(prog)
  BY <1>1, OneMore, LenProperties
<1>3. ASSUME NEW f \in Frames
      PROVE  /\ IsFiniteSet(MentionsIn(prog', f))
             /\ states'[f].nElements = Cardinality(MentionsIn(prog', f))
             /\ states'[f].nOutputs = Cardinality(Placed(prog', f, Outputs))
  <2>1. Counts(states[f], states'[f], Cardinality(Named(el, f)),
               One(el.kind \in Outputs /\ el.frame = f))
    BY ElementCountsFrames
  <2>2. /\ IsFiniteSet(MentionsIn(prog', f))
        /\ Cardinality(MentionsIn(prog', f))
               = Cardinality(MentionsIn(prog, f)) + Cardinality(Named(el, f))
    BY <1>1, MentionsGrow DEF CountsRight
  <2>3. /\ Placed(prog, f, Outputs) \in SUBSET DOMAIN prog
        /\ Placed(prog', f, Outputs)
               = Placed(prog, f, Outputs) \cup IF el.kind \in Outputs /\ el.frame = f
                                               THEN {Len(prog) + 1} ELSE {}
    BY <1>1, <1>2, PlacedGrows
  <2>4. Cardinality(Placed(prog', f, Outputs))
            = Cardinality(Placed(prog, f, Outputs)) + One(el.kind \in Outputs /\ el.frame = f)
    BY <1>1, <2>3, PlaceAdded
  <2> QED BY <2>1, <2>2, <2>4 DEF Counts, CountsRight
<1>4. outputs' = Cardinality(OutputsOf(prog'))
  <2>1. OutputsOf(prog') = OutputsOf(prog) \cup IF el.kind \in Outputs THEN {Len(prog) + 1} ELSE {}
    BY <1>2 DEF OutputsOf
  <2>2. OutputsOf(prog) \in SUBSET DOMAIN prog
    BY DEF OutputsOf
  <2>3. Cardinality(OutputsOf(prog')) = Cardinality(OutputsOf(prog)) + One(el.kind \in Outputs)
    <3> DEFINE A == OutputsOf(prog)
               condition == el.kind \in Outputs
    <3> HIDE DEF A, condition
    <3>1. A \in SUBSET DOMAIN prog
      BY <2>2 DEF A
    <3>2. LET B == A \cup IF condition THEN {Len(prog) + 1} ELSE {}
          IN  Cardinality(B) = Cardinality(A) + One(condition)
      BY <1>1, <3>1, PlaceAdded
    <3> QED BY <2>1, <3>2 DEF A, condition
  <2> QED BY <2>3, ElementPlays DEF CountsRight
<1>5. wfPlayed' = PlayedBy(prog')
  <2>1. PlayedBy(prog') = PlayedBy(prog) \cup IF PlaysWaveform(el) THEN {el.waveform} ELSE {}
    <3>1. \A w : w \in PlayedBy(prog')
                     <=> \E i \in 1 .. Len(prog) + 1 :
                            PlaysWaveform(prog'[i]) /\ w = prog'[i].waveform
      BY <1>2 DEF PlayedBy
    <3>2. \A w : w \in PlayedBy(prog)
                     <=> \E i \in 1 .. Len(prog) : PlaysWaveform(prog[i]) /\ w = prog[i].waveform
      BY <1>2 DEF PlayedBy
    <3>3. \A i : i \in 1 .. Len(prog) + 1 <=> i \in 1 .. Len(prog) \/ i = Len(prog) + 1
      BY <1>2
    <3>4. \A w : w \in PlayedBy(prog')
                     <=> w \in PlayedBy(prog) \/ (PlaysWaveform(el) /\ w = el.waveform)
      BY <1>2, <3>1, <3>2, <3>3
    <3> QED BY <3>4
  <2> QED BY <2>1, ElementPlays DEF CountsRight
<1> QED BY <1>3, <1>4, <1>5 DEF CountsRight

-----------------------------------------------------------------------------
(* Nothing but an element changes what is counted.                         *)
LEMMA OtherCountsRight ==
    ASSUME IInv, CountsRight, [Next]_vars,
           ~\E el \in ElementSet : ReadElement(el) /\ ~ToolError
    PROVE  CountsRight'
<1>1. /\ prog' = prog /\ outputs' = outputs /\ wfPlayed' = wfPlayed
      /\ \A f \in Frames : /\ states'[f].nElements = states[f].nElements
                           /\ states'[f].nOutputs = states[f].nOutputs
  <2>1. CASE CloseSlots /\ ~ToolError
    <3>1. /\ prog' = prog /\ UNCHANGED envVars
          /\ states' = [f \in Frames |-> IF SettlesAtEnd(f)
                                         THEN [states[f] EXCEPT !.openCapture = Absent]
                                         ELSE states[f]]
      BY <2>1 DEF CloseSlots
    <3>2. \A f \in Frames : states[f] \in FrameRecord
      BY DEF IInv, Typed
    <3>3. ASSUME NEW st \in FrameRecord
          PROVE  LET closed == [st EXCEPT !.openCapture = Absent]
                 IN  closed.nElements = st.nElements /\ closed.nOutputs = st.nOutputs
      BY DEF FrameRecord
    <3> QED BY <3>1, <3>2, <3>3 DEF envVars
  <2>2. CASE ~CloseSlots \/ ToolError
    <3>1. UNCHANGED << progVars, envVars >>
      <4>1. CASE ToolError
        BY <4>1 DEF ToolError
      <4>2. CASE Bind \/ EndOfProgram \/ CloseSpacing \/ SkipBudget \/ CountBudget \/ Finish
        BY <4>1, <4>2 DEF Bind, EndOfProgram, CloseSpacing, SkipBudget, CountBudget, Finish
      <4>3. CASE Idle \/ UNCHANGED vars
        BY <4>3 DEF Idle, vars
      <4> QED BY <2>2, <4>1, <4>2, <4>3 DEF Next
    <3> QED BY <3>1 DEF progVars, envVars
  <2> QED BY <2>1, <2>2
<1> QED BY <1>1 DEF CountsRight

(* A program of no element counts nothing.                                 *)
LEMMA InitCountsRight ==
    ASSUME Init PROVE CountsRight
<1>1. prog = << >> /\ outputs = 0 /\ wfPlayed = {} /\ DOMAIN prog = {}
  BY DEF Init
<1>2. \A f \in Frames : states[f].nElements = 0 /\ states[f].nOutputs = 0
  BY DEF Init, InitialState
<1>3. \A f : MentionsIn(prog, f) = {} /\ Placed(prog, f, Outputs) = {}
  BY <1>1 DEF MentionsIn, Placed
<1>4. OutputsOf(prog) = {} /\ PlayedBy(prog) = {}
  BY <1>1 DEF OutputsOf, PlayedBy
<1> QED BY <1>1, <1>2, <1>3, <1>4, FS_EmptySet DEF CountsRight

(* Of finitely many frames one has the most.                               *)
LEMMA MostOf ==
    ASSUME NEW F \in SUBSET Frames, F # {}, NEW g \in [F -> Int]
    PROVE  LET most == Max({g[f] : f \in F})
           IN  most \in Int /\ (\E f \in F : most = g[f]) /\ \A f \in F : g[f] <= most
<1> DEFINE n == Len(FrameDefs)
           Good(k) == \A G \in SUBSET F : G # {} /\ (\A f \in G : f <= k)
                          => \E x \in G : \A y \in G : g[y] <= g[x]
           M == {k \in Nat : Good(k)}
<1>1. n \in Nat /\ F \subseteq 1 .. n
  BY FrameAssumption, LenProperties DEF Frames
<1>2. 0 \in M
  <2>1. ASSUME NEW G \in SUBSET F, G # {}, \A f \in G : f <= 0 PROVE FALSE
    <3>1. PICK f \in G : f \in 1 .. n /\ f <= 0
      BY <1>1, <2>1
    <3> QED BY <1>1, <3>1
  <2> QED BY <2>1
<1>3. ASSUME NEW k \in M PROVE k + 1 \in M
  <2> SUFFICES ASSUME NEW G \in SUBSET F, G # {}, \A f \in G : f <= k + 1
               PROVE  \E x \in G : \A y \in G : g[y] <= g[x]
    OBVIOUS
  <2> DEFINE H == G \ {k + 1}
  <2>1. H \in SUBSET F /\ \A f \in H : f <= k
    BY <1>1
  <2>2. CASE H = {}
    <3>1. G = {k + 1}
      BY <2>2
    <3> QED BY <3>1
  <2>3. CASE H # {}
    <3>1. PICK x \in H : \A y \in H : g[y] <= g[x]
      <4>1. Good(k)
        OBVIOUS
      <4> HIDE DEF H
      <4> QED BY <2>1, <2>3, <4>1
    <3>2. CASE k + 1 \in G /\ ~(g[k + 1] <= g[x])
      <4>1. g[k + 1] \in Int /\ g[x] \in Int /\ \A y \in H : g[y] \in Int
        BY <2>1, <3>2
      <4>2. \A y \in H : g[y] <= g[k + 1]
        BY <3>1, <3>2, <4>1
      <4>3. \A y \in G : y \in H \/ y = k + 1
        OBVIOUS
      <4> HIDE DEF H
      <4> QED BY <3>2, <4>1, <4>2, <4>3
    <3>3. CASE ~(k + 1 \in G /\ ~(g[k + 1] <= g[x]))
      BY <3>1, <3>3
    <3> QED BY <3>2, <3>3
  <2> QED BY <2>2, <2>3
<1>4. M = Nat
  <2>1. M \in SUBSET Nat
    OBVIOUS
  <2> HIDE DEF M
  <2> QED BY <1>2, <1>3, <2>1, SetInduction
<1>5. Good(n)
  <2>1. n \in M
    <3> HIDE DEF M
    <3> QED BY <1>1, <1>4
  <2> QED BY <2>1
<1>6. PICK x \in F : \A y \in F : g[y] <= g[x]
  <2>1. \A f \in F : f <= n
    BY <1>1
  <2> QED BY <1>5, <2>1
<1>7. Max({g[f] : f \in F}) = g[x]
  <2> DEFINE S == {g[f] : f \in F}
  <2>1. S \in SUBSET Int /\ g[x] \in S /\ \A y \in S : y <= g[x]
    BY <1>6
  <2> HIDE DEF S
  <2>2. Max(S) = g[x]
    BY <2>1, MaxIs
  <2> QED BY <2>2 DEF S
<1> QED BY <1>6, <1>7

-----------------------------------------------------------------------------
(* A result, and what the report says of its class. *)
BudgetIds == {"pmem_words", "wmem_words", "loop_registers"}

ResultRecord ==
    [id: BudgetIds, verdict: {"fits", "violates", "indeterminate"},
     lower: Int, upper: Int, limit: Int]

Exceeded(id) ==
    {r \in ResultRecord : r.id = id /\ ~(r.lower <= r.limit) /\ r.upper > r.limit}

Undecided(id) == {r \in ResultRecord : r.id = id /\ r.lower <= r.limit /\ r.upper > r.limit}

ResultOf(b) ==
    [id |-> b.id, verdict |-> BudgetVerdict(BudgetBounds(b), b.limit),
     lower |-> BudgetBounds(b).lower, upper |-> BudgetBounds(b).upper, limit |-> b.limit]

(* What a budget has counted, given what the descriptor may say.           *)
LEMMA BudgetFields ==
    ASSUME NEW b, NEW m \in 1 .. Len(Budgets), b = Budgets[m]
    PROVE  /\ b.id \in BudgetIds
           /\ b.perItem \in Int /\ b.overhead \in Int /\ b.limit \in Int
           /\ b.perElementMax \in Int \cup {Absent} /\ PerElement(b) \in Int
  BY BudgetAssumption DEF BudgetIds, PerElement

(* A cost is an integer.                                                   *)
LEMMA CostInt ==
    ASSUME NEW a \in Int, NEW n \in Int, NEW o \in Int PROVE Cost(a, n, o) \in Int
<1>1. PICK p \in Int : p = a * n
  OBVIOUS
<1> QED BY <1>1 DEF Cost

(* The frame with the most decides.                                        *)
Least(b, f) == Cost(b.perItem, states[f].nOutputs, b.overhead)

Most(b, f) == Cost(PerElement(b), MostItems(b, f), b.overhead)

(* The bounds of a budget per frame are those of some frames, and no frame *)
(* has larger ones.                                                        *)
LEMMA FrameBoundsAre ==
    ASSUME Typed, NEW b, NEW m \in 1 .. Len(Budgets), b = Budgets[m], Applicable(b) # {}
    PROVE  /\ FrameBounds(b).lower \in Int /\ FrameBounds(b).upper \in Int
           /\ \A f \in Applicable(b) : Least(b, f) \in Int /\ Most(b, f) \in Int
           /\ \E f \in Applicable(b) : FrameBounds(b).lower = Least(b, f)
           /\ \A f \in Applicable(b) : Least(b, f) <= FrameBounds(b).lower
           /\ \E f \in Applicable(b) : FrameBounds(b).upper = Most(b, f)
           /\ \A f \in Applicable(b) : Most(b, f) <= FrameBounds(b).upper
<1> DEFINE F == Applicable(b)
           least == [f \in F |-> Least(b, f)]
           most  == [f \in F |-> Most(b, f)]
<1>1. F \in SUBSET Frames /\ F # {}
  BY DEF Applicable
<1>2. ASSUME NEW f \in F PROVE Least(b, f) \in Int /\ Most(b, f) \in Int
  <2>1. states[f].nOutputs \in Int /\ states[f].nElements \in Int
    <3>1. f \in Frames
      BY <1>1
    <3>2. states[f] \in FrameRecord
      BY <3>1 DEF Typed
    <3> QED BY <3>2 DEF FrameRecord
  <2>2. MostItems(b, f) \in Int
    BY <2>1 DEF MostItems
  <2> QED BY <2>1, <2>2, BudgetFields, CostInt DEF Least, Most
<1>3. least \in [F -> Int] /\ most \in [F -> Int]
  BY <1>2
<1>4. /\ FrameBounds(b).lower = Max({least[f] : f \in F})
      /\ FrameBounds(b).upper = Max({most[f] : f \in F})
  <2>1. /\ {least[f] : f \in F} = {Cost(b.perItem, states[f].nOutputs, b.overhead) : f \in F}
        /\ {most[f] : f \in F} = {Cost(PerElement(b), MostItems(b, f), b.overhead) : f \in F}
    BY DEF Least, Most
  <2> HIDE DEF least, most, F
  <2> QED BY <2>1, Zenon DEF FrameBounds, Bounds, F
<1>5. \A f \in F : least[f] = Least(b, f) /\ most[f] = Most(b, f)
  OBVIOUS
<1> HIDE DEF F, least, most
<1>6. LET x == Max({least[f] : f \in F})
      IN  x \in Int /\ (\E f \in F : x = least[f]) /\ \A f \in F : least[f] <= x
  BY <1>1, <1>3, MostOf
<1>7. LET x == Max({most[f] : f \in F})
      IN  x \in Int /\ (\E f \in F : x = most[f]) /\ \A f \in F : most[f] <= x
  BY <1>1, <1>3, MostOf
<1>8. /\ FrameBounds(b).lower \in Int /\ \E f \in F : FrameBounds(b).lower = Least(b, f)
      /\ \A f \in F : Least(b, f) <= FrameBounds(b).lower
  BY <1>4, <1>5, <1>6
<1>9. /\ FrameBounds(b).upper \in Int /\ \E f \in F : FrameBounds(b).upper = Most(b, f)
      /\ \A f \in F : Most(b, f) <= FrameBounds(b).upper
  BY <1>4, <1>5, <1>7
<1> QED BY <1>2, <1>8, <1>9 DEF F

(* Three cases of what a budget counts.                                    *)
LEMMA BoundsAre ==
    ASSUME NEW b, ValidBudget(b)
    PROVE  /\ b.id = "wmem_words" =>
                  /\ BudgetBounds(b).lower = Cost(b.perItem, Cardinality(wfPlayed), b.overhead)
                  /\ BudgetBounds(b).upper = Cost(b.perItem, Cardinality(wfPlayed), b.overhead)
           /\ b.id # "wmem_words" /\ b.perFrame => BudgetBounds(b) = FrameBounds(b)
           /\ b.id # "wmem_words" /\ ~b.perFrame =>
                  /\ BudgetBounds(b).lower = Cost(b.perItem, outputs, b.overhead)
                  /\ BudgetBounds(b).upper = Cost(b.perItem, 2 * Len(prog), b.overhead)
           /\ b.perFrame => b.id # "wmem_words"
<1>1. b.perFrame => b.id = "pmem_words"
  BY DEF ValidBudget
<1>2. CASE b.id = "wmem_words"
  <2>1. ~b.perFrame
    BY <1>1, <1>2
  <2> QED BY <1>2, <2>1 DEF BudgetBounds, Bounds
<1>3. CASE b.id # "wmem_words" /\ b.perFrame
  BY <1>3 DEF BudgetBounds
<1>4. CASE b.id # "wmem_words" /\ ~b.perFrame
  BY <1>4 DEF BudgetBounds, Bounds
<1> QED BY <1>1, <1>2, <1>3, <1>4

(* Finitely many elements play finitely many waveforms.                    *)
LEMMA PlayedFinite ==
    ASSUME NEW p \in Seq(ElementSet) PROVE IsFiniteSet(PlayedBy(p))
<1> DEFINE D == {i \in DOMAIN p : PlaysWaveform(p[i])}
           g == [i \in D |-> p[i].waveform]
<1>1. IsFiniteSet(D)
  <2>1. D \in SUBSET DOMAIN p
    OBVIOUS
  <2> HIDE DEF D
  <2> QED BY <2>1, PlacesFinite
<1>2. g \in Surjection(D, PlayedBy(p))
  <2>1. g \in [D -> PlayedBy(p)] /\ \A w \in PlayedBy(p) : \E i \in D : g[i] = w
    BY DEF PlayedBy
  <2> HIDE DEF g, D
  <2> QED BY <2>1, Fun_IsSurj
<1> HIDE DEF g, D
<1> QED BY <1>1, <1>2, FS_Surjection

(* A result is one, and its verdict follows from its bounds.               *)
LEMMA ResultIs ==
    ASSUME Typed, CountsRight, NEW m \in 1 .. Len(Budgets), NEW b, b = Budgets[m],
           ValidBudget(b), ~Skipped(b)
    PROVE  /\ ResultOf(b) \in ResultRecord
           /\ BudgetBounds(b).lower \in Int /\ BudgetBounds(b).upper \in Int
           /\ \A id : /\ ResultOf(b) \in Exceeded(id)
                             <=> id = b.id /\ BudgetVerdict(BudgetBounds(b), b.limit) = "violates"
                      /\ ResultOf(b) \in Undecided(id)
                             <=> /\ id = b.id
                                 /\ BudgetVerdict(BudgetBounds(b), b.limit) = "indeterminate"
<1> DEFINE lower == BudgetBounds(b).lower
           upper == BudgetBounds(b).upper
           verdict == BudgetVerdict(BudgetBounds(b), b.limit)
<1>1. /\ b.id \in BudgetIds /\ b.perItem \in Int /\ b.overhead \in Int /\ b.limit \in Int
  BY BudgetFields
<1>2. lower \in Int /\ upper \in Int
  <2>1. CASE b.id = "wmem_words"
    <3>1. PICK n \in Int : n = Cardinality(wfPlayed)
      <4>1. prog \in Seq(ElementSet)
        BY DEF Typed
      <4>2. IsFiniteSet(PlayedBy(prog))
        BY <4>1, PlayedFinite
      <4> QED BY <4>2, FS_CardinalityType DEF CountsRight
    <3>2. lower = Cost(b.perItem, n, b.overhead) /\ upper = Cost(b.perItem, n, b.overhead)
      BY <2>1, <3>1, BoundsAre
    <3>3. Cost(b.perItem, n, b.overhead) \in Int
      BY <1>1, CostInt
    <3> QED BY <3>2, <3>3
  <2>2. CASE b.id # "wmem_words" /\ b.perFrame
    <3>1. Applicable(b) # {}
      BY <2>2 DEF Skipped
    <3> QED BY <2>2, <3>1, FrameBoundsAre, BoundsAre
  <2>3. CASE b.id # "wmem_words" /\ ~b.perFrame
    <3>1. outputs \in Int /\ 2 * Len(prog) \in Int
      BY LenProperties DEF Typed
    <3>2. /\ lower = Cost(b.perItem, outputs, b.overhead)
          /\ upper = Cost(b.perItem, 2 * Len(prog), b.overhead)
      BY <2>3, BoundsAre
    <3>3. /\ Cost(b.perItem, outputs, b.overhead) \in Int
          /\ Cost(b.perItem, 2 * Len(prog), b.overhead) \in Int
      BY <1>1, <3>1, CostInt
    <3> QED BY <3>2, <3>3
  <2> QED BY <2>1, <2>2, <2>3
<1>3. /\ verdict = "violates" <=> ~(lower <= b.limit) /\ upper > b.limit
      /\ verdict = "indeterminate" <=> lower <= b.limit /\ upper > b.limit
      /\ verdict \in {"fits", "violates", "indeterminate"}
  <2> HIDE DEF verdict
  <2>1. verdict = IF upper <= b.limit THEN "fits"
                  ELSE IF lower > b.limit THEN "violates" ELSE "indeterminate"
    BY DEF BudgetVerdict, verdict
  <2> HIDE DEF lower, upper
  <2> QED BY <1>1, <1>2, <2>1
<1>4. ResultOf(b) = [id |-> b.id, verdict |-> verdict, lower |-> lower, upper |-> upper,
                     limit |-> b.limit]
  BY DEF ResultOf
<1> HIDE DEF verdict, lower, upper
<1>5. ResultOf(b) \in ResultRecord
  BY <1>1, <1>2, <1>3, <1>4 DEF ResultRecord
<1>6. ASSUME NEW id
      PROVE  /\ ResultOf(b) \in Exceeded(id) <=> id = b.id /\ verdict = "violates"
             /\ ResultOf(b) \in Undecided(id) <=> id = b.id /\ verdict = "indeterminate"
  BY <1>3, <1>4, <1>5 DEF Exceeded, Undecided
<1> QED BY <1>2, <1>5, <1>6 DEF verdict, lower, upper

-----------------------------------------------------------------------------
(* Two budgets of a class: what the sink and the coverage table say of the *)
(* class is what its results say, whenever one looks.                      *)
CountedIds == {"pmem_words", "wmem_words"}

RejectedAs(id) == {r \in Rejected : r.rule = id}

ClassHonest(id) ==
    /\ Tally(sink, RejectedAs(id)) = Tally(results, Exceeded(id))
    /\ coverage[id] = "indeterminate" <=> \E n \in DOMAIN results : results[n] \in Undecided(id)

NotMasked ==
    /\ results \in Seq(ResultRecord)
    /\ phase \in {"start", "elements", "slots", "spacing"} => results = << >> /\ nextBudget = 1
    /\ \A id \in CountedIds : ClassHonest(id)

(* The classes of the budgets are not those of the element rules.          *)
LEMMA CountedApart ==
    ASSUME NEW id \in CountedIds
    PROVE  /\ id \in Classes /\ id \notin ElementRules
           /\ id # "unconstrained_channel" /\ id # "loop_registers"
<1>1. /\ CoverageClasses[23] = "pmem_words" /\ CoverageClasses[24] = "wmem_words"
      /\ 23 \in DOMAIN CoverageClasses /\ 24 \in DOMAIN CoverageClasses
  BY DEF CoverageClasses, RuleIds
<1>2. id \in Classes
  BY <1>1 DEF Classes, CountedIds
<1>3. id \notin ElementRules
  BY DEF ElementRules, TimeIds, RepeatRules, ValueRules, PlainRules, DurationRules, CountedIds
<1> QED BY <1>2, <1>3 DEF CountedIds

(* Rejections that do not name a class leave its tally.                    *)
LEMMA TallyUnnamed ==
    ASSUME NEW k \in Seq(Rejected), NEW s \in Seq(Rejected), NEW id,
           \A elements : ~Names(s, id, elements)
    PROVE  Tally(k \o s, RejectedAs(id)) = Tally(k, RejectedAs(id))
<1>1. ASSUME NEW n \in DOMAIN s, s[n] \in RejectedAs(id) PROVE FALSE
  <2>1. s[n] \in ToSet(s) /\ s[n].rule = id /\ s[n].element \in {s[n].element}
    BY <1>1 DEF ToSet, RejectedAs
  <2>2. Names(s, id, {s[n].element})
    BY <2>1 DEF Names
  <2> QED BY <2>2
<1>2. Tally(s, RejectedAs(id)) = 0
  BY <1>1, TallyNone
<1> QED BY <1>2, TallyConcat, TallyNatural

(* No step before the budgets says anything of their classes.              *)
LEMMA EarlyStepHonest ==
    ASSUME NotMasked, sink \in Seq(Rejected), results' = results,
           NEW s \in Seq(Rejected), sink' = sink \o s,
           NEW id \in CountedIds, \A elements : ~Names(s, id, elements),
           coverage'[id] = "indeterminate" <=> coverage[id] = "indeterminate"
    PROVE  ClassHonest(id)'
<1>1. Tally(sink', RejectedAs(id)) = Tally(sink, RejectedAs(id))
  BY TallyUnnamed
<1>2. ClassHonest(id)
  BY DEF NotMasked
<1> QED BY <1>1, <1>2 DEF ClassHonest

(* What a table covers with another status was not indeterminate.          *)
LEMMA CoverLeaves ==
    ASSUME NEW table, DOMAIN table = Classes, NEW classes, NEW status, NEW id \in Classes
    PROVE  /\ DOMAIN Cover(table, classes, status) = Classes
           /\ Cover(table, classes, status)[id] = IF id \in classes THEN status ELSE table[id]
  BY DEF Cover

(* Every status an element leaves is new or was there.                     *)
Covered(table) ==
    /\ DOMAIN table = Classes
    /\ \A k \in Classes : table[k] \in {coverage[k], "checked", "unchecked"}

(* An element checks a class, leaves it unchecked, or leaves it alone.     *)
LEMMA ElementCovers ==
    ASSUME IInv, NEW el \in ElementSet, ReadElement(el), ~ToolError
    PROVE  Covered(coverage')
<1>1. Covered(coverage)
  BY DEF IInv, Typed, Covered
<1>2. ASSUME NEW table, Covered(table), NEW classes, NEW status \in {"checked", "unchecked"}
      PROVE  Covered(Cover(table, classes, status))
  <2>1. DOMAIN table = Classes /\ \A k \in Classes : table[k] \in {coverage[k], "checked", "unchecked"}
    BY <1>2 DEF Covered
  <2>2. \A k \in Classes : Cover(table, classes, status)[k] \in {coverage[k], "checked", "unchecked"}
    BY <2>1, CoverLeaves
  <2>3. DOMAIN Cover(table, classes, status) = Classes
    BY <2>1 DEF Cover
  <2> QED BY <2>2, <2>3 DEF Covered
<1>3. CASE \E classes : coverage' = Cover(coverage, classes, "checked")
  BY <1>1, <1>2, <1>3
<1>4. CASE \E some, others :
               coverage' = Cover(Cover(coverage, some, "checked"), others, "unchecked")
  BY <1>1, <1>2, <1>4
<1>5. CASE Barrier(el) \/ ShiftPhase(el) \/ SetFrequency(el) \/ Delay(el)
  <2>1. \E classes : coverage' = Cover(coverage, classes, "checked")
    BY <1>5 DEF Barrier, ShiftPhase, SetFrequency, Delay
  <2> QED BY <1>3, <2>1
<1>6. CASE Capture(el) \/ PlayWaveform(el) \/ PlayTones(el)
  <2>1. \E some, others : coverage' = Cover(Cover(coverage, some, "checked"), others, "unchecked")
    BY <1>6 DEF Capture, PlayWaveform, PlayTones
  <2> QED BY <1>4, <2>1
<1> QED BY <1>5, <1>6 DEF ReadElement, Play

(* An element keeps NotMasked. *)
LEMMA ElementNotMasked ==
    ASSUME IInv, sink \in Seq(Rejected), NotMasked, NEW el \in ElementSet, ReadElement(el),
           ~ToolError
    PROVE  NotMasked'
<1>1. phase = "elements" /\ phase' = "elements"
  BY ElementGoesOn
<1>2. UNCHANGED budgetVars
  BY DEF ReadElement, Barrier, ShiftPhase, SetFrequency, Delay, Capture, Play, PlayWaveform,
         PlayTones
<1>3. results' = results /\ nextBudget' = nextBudget
  BY <1>2 DEF budgetVars
<1>4. PICK s : Adds(el, s) /\ sink' = sink \o s
  BY ElementAdds
<1>5. s \in Seq(Flagged) /\ s \in Seq(Rejected)
  BY <1>4 DEF Adds
<1>6. ASSUME NEW id \in CountedIds PROVE ClassHonest(id)'
  <2>1. \A elements : ~Names(s, id, elements)
    BY <1>5, CountedApart, NamesOnly DEF Flagged
  <2>2. coverage'[id] \in {coverage[id], "checked", "unchecked"}
    BY ElementCovers, CountedApart DEF Covered
  <2>3. coverage[id] # "indeterminate"
    <3>1. ClassHonest(id) /\ results = << >>
      BY <1>1 DEF NotMasked
    <3> QED BY <3>1 DEF ClassHonest
  <2> QED BY <1>3, <1>4, <1>5, <2>1, <2>2, <2>3, EarlyStepHonest
<1> QED BY <1>1, <1>3, <1>6 DEF NotMasked

(* Counting a budget keeps NotMasked: its verdict is in the sink, in the   *)
(* table and in the results.                                               *)
LEMMA CountNotMasked ==
    ASSUME HInv, CountsRight, NotMasked, CountBudget, ~ToolError PROVE NotMasked'
<1> DEFINE b == Budgets[nextBudget]
           verdict == BudgetVerdict(BudgetBounds(b), b.limit)
           new == ResultOf(b)
           r == Fatal(b.id, LastElement)
<1>1. /\ Typed /\ IInv /\ sink \in Seq(Rejected) /\ results \in Seq(ResultRecord)
      /\ phase = "budgets" /\ nextBudget \in 1 .. Len(Budgets) /\ ~Skipped(b)
      /\ ValidDescriptor
  BY BudgetAssumption DEF HInv, IInv, NotMasked, CountBudget, Typed
<1>2. /\ phase' = phase
      /\ coverage' = Cover(coverage, {b.id}, BudgetStatus(b.id, verdict))
      /\ sink' = sink \o When(verdict = "violates", r)
      /\ results' = Append(results, new)
  BY DEF CountBudget, ResultOf
<1>3. ValidBudget(b)
  BY <1>1, BudgetAssumption DEF ValidDescriptor
<1>4. /\ new \in ResultRecord
      /\ \A id : /\ new \in Exceeded(id) <=> id = b.id /\ verdict = "violates"
                 /\ new \in Undecided(id) <=> id = b.id /\ verdict = "indeterminate"
  BY <1>1, <1>3, ResultIs
<1>5. r \in Rejected /\ r.rule = b.id
  <2>1. LastElement \in Nat
    BY <1>1, LenProperties DEF Typed, LastElement
  <2>2. b.id \in Classes \ {"negative_time"}
    BY <1>1, BudgetClass
  <2> QED BY <2>1, <2>2, FatalRejected
<1>6. b.id \in Classes
  BY <1>1, BudgetClass
<1> HIDE DEF verdict, new, r, b
<1>7. results' \in Seq(ResultRecord) /\ results' = results \o << new >>
      /\ << new >> \in Seq(ResultRecord)
  BY <1>1, <1>2, <1>4, AppendProperties, SeqDef, AppendIsConcat
<1>8. ASSUME NEW id \in CountedIds PROVE ClassHonest(id)'
  <2>1. ClassHonest(id) /\ id \in Classes
    BY CountedApart DEF NotMasked
  <2> DEFINE exceeds == id = b.id /\ verdict = "violates"
  <2>2. Tally(results', Exceeded(id)) = Tally(results, Exceeded(id)) + One(exceeds)
    <3>1. Tally(<< new >>, Exceeded(id)) = One(exceeds)
      BY <1>4, TallyOne DEF One
    <3> DEFINE t == << new >>
    <3>2. t \in Seq(ResultRecord) /\ results' = results \o t
      BY <1>7
    <3> HIDE DEF t
    <3>3. Tally(results \o t, Exceeded(id)) = Tally(results, Exceeded(id)) + Tally(t, Exceeded(id))
      BY <1>1, <3>2, TallyConcat
    <3> QED BY <3>1, <3>2, <3>3 DEF t
  <2>3. Tally(sink', RejectedAs(id)) = Tally(sink, RejectedAs(id)) + One(exceeds)
    <3>1. /\ When(verdict = "violates", r) \in Seq(Rejected)
          /\ Tally(When(verdict = "violates", r), RejectedAs(id)) = One(exceeds)
      <4>1. CASE verdict = "violates"
        <5>1. When(verdict = "violates", r) = << r >>
          BY <4>1 DEF When
        <5>2. << r >> \in Seq(Rejected)
          BY <1>5, SeqDef
        <5>3. r \in RejectedAs(id) <=> id = b.id
          BY <1>5 DEF RejectedAs
        <5>4. Tally(<< r >>, RejectedAs(id)) = One(exceeds)
          BY <4>1, <5>3, TallyOne DEF One
        <5> QED BY <5>1, <5>2, <5>4
      <4>2. CASE verdict # "violates"
        <5>1. When(verdict = "violates", r) = << >>
          BY <4>2 DEF When
        <5>2. Tally(<< >>, RejectedAs(id)) = One(exceeds)
          BY <4>2, TallyOne DEF One
        <5> QED BY <5>1, <5>2, EmptySeq
      <4> QED BY <4>1, <4>2
    <3> QED BY <1>1, <1>2, <3>1, TallyConcat
  <2>4. (\E n \in DOMAIN results' : results'[n] \in Undecided(id))
            <=> \/ \E n \in DOMAIN results : results[n] \in Undecided(id)
                \/ id = b.id /\ verdict = "indeterminate"
    <3>1. /\ DOMAIN results' = 1 .. Len(results) + 1 /\ Len(results) \in Nat
          /\ DOMAIN results = 1 .. Len(results)
          /\ \A i \in 1 .. Len(results) : results'[i] = results[i]
          /\ results'[Len(results) + 1] = new
      BY <1>1, <1>2, <1>4, OneMore, LenProperties
    <3>2. \A n : n \in DOMAIN results' <=> n \in DOMAIN results \/ n = Len(results) + 1
      BY <3>1
    <3> QED BY <1>4, <3>1, <3>2
  <2>5. coverage'[id] = "indeterminate"
            <=> coverage[id] = "indeterminate" \/ (id = b.id /\ verdict = "indeterminate")
    <3>1. DOMAIN coverage = Classes
      BY <1>1 DEF Typed
    <3>2. coverage'[id] = IF id = b.id THEN BudgetStatus(b.id, verdict) ELSE coverage[id]
      BY <1>2, <2>1, <3>1, CoverLeaves
    <3>3. BudgetStatus(b.id, verdict) = "indeterminate"
              <=> coverage[b.id] = "indeterminate" \/ verdict = "indeterminate"
      BY DEF BudgetStatus
    <3> QED BY <3>2, <3>3
  <2> QED BY <2>1, <2>2, <2>3, <2>4, <2>5 DEF ClassHonest
<1> QED BY <1>1, <1>2, <1>7, <1>8 DEF NotMasked

(* Every other step keeps it.                                              *)
LEMMA OtherNotMasked ==
    ASSUME HInv, CountsRight, NotMasked, [Next]_vars,
           ~\E el \in ElementSet : ReadElement(el) /\ ~ToolError
    PROVE  NotMasked'
<1>1. /\ IInv /\ Typed /\ sink \in Seq(Rejected) /\ DOMAIN coverage = Classes
  BY DEF HInv, IInv, Typed
<1>2. << >> \in Seq(Rejected) /\ sink \o << >> = sink /\ \A rule, e : ~Names(<< >>, rule, e)
  BY <1>1, EmptySeq, ConcatProperties, NamesNone
<1> DEFINE early == {"start", "elements", "slots", "spacing"}
           Steps(s) == /\ sink' = sink \o s
                       /\ \A id \in CountedIds : \A elements : ~Names(s, id, elements)
<1>3. ASSUME UNCHANGED results, phase' \in early => phase \in early /\ nextBudget' = nextBudget,
             NEW s \in Seq(Rejected), Steps(s),
             \A id \in CountedIds : coverage'[id] = "indeterminate"
                                        <=> coverage[id] = "indeterminate"
      PROVE  NotMasked'
  <2>1. \A id \in CountedIds : ClassHonest(id)'
    BY <1>1, <1>3, EarlyStepHonest
  <2> QED BY <1>3, <2>1 DEF NotMasked
<1>4. CASE sink' = sink /\ coverage' = coverage /\ UNCHANGED results
           /\ (phase' \in early => phase \in early /\ nextBudget' = nextBudget)
  BY <1>2, <1>3, <1>4
<1>5. CASE ToolError
  BY <1>4, <1>5 DEF ToolError, budgetVars
<1>6. ASSUME NEW classes, NEW status \in {"checked", "unchecked", "not_applicable"},
             coverage' = Cover(coverage, classes, status), classes \cap CountedIds = {}
      PROVE  \A id \in CountedIds : coverage'[id] = "indeterminate"
                                        <=> coverage[id] = "indeterminate"
  BY <1>1, <1>6, CountedApart, CoverLeaves
<1>7. CASE Bind /\ ~ToolError
  <2>1. /\ coverage' = Cover(coverage, IF Unconstrained THEN {"unconstrained_channel"} ELSE {},
                             "unchecked")
        /\ UNCHANGED << sink, budgetVars >> /\ phase = "start"
    BY <1>7 DEF Bind
  <2>2. (IF Unconstrained THEN {"unconstrained_channel"} ELSE {}) \cap CountedIds = {}
    BY CountedApart
  <2>3. \A id \in CountedIds : coverage'[id] = "indeterminate" <=> coverage[id] = "indeterminate"
    BY <1>6, <2>1, <2>2
  <2>4. Steps(<< >>)
    BY <1>2, <2>1
  <2> QED BY <1>2, <1>3, <2>1, <2>3, <2>4 DEF budgetVars
<1>8. CASE EndOfProgram
  BY <1>4, <1>8 DEF EndOfProgram, budgetVars
<1>9. CASE CloseSlots /\ ~ToolError
  <2>1. /\ coverage' = Cover(coverage, IF \E f \in Frames : SettlesAtEnd(f)
                                       THEN {"capture_slot"} ELSE {}, "checked")
        /\ UNCHANGED budgetVars /\ phase = "slots"
    BY <1>9 DEF CloseSlots
  <2>2. (IF \E f \in Frames : SettlesAtEnd(f) THEN {"capture_slot"} ELSE {}) \cap CountedIds = {}
    BY DEF CountedIds
  <2>3. \A id \in CountedIds : coverage'[id] = "indeterminate" <=> coverage[id] = "indeterminate"
    BY <1>6, <2>1, <2>2
  <2>4. PICK s \in Seq(Rejected) :
           sink' = sink \o s /\ \A rule, elements : Names(s, rule, elements) => rule = "capture_slot"
    BY <1>1, <1>9, SlotsAdd
  <2>5. Steps(s)
    BY <2>4 DEF CountedIds
  <2> QED BY <1>3, <2>1, <2>3, <2>5 DEF budgetVars
<1>10. CASE CloseSpacing /\ ~ToolError
  <2>1. coverage' = coverage /\ UNCHANGED budgetVars /\ phase = "spacing"
    BY <1>10 DEF CloseSpacing
  <2>2. PICK s \in Seq(Rejected) :
           sink' = sink \o s /\ \A rule, elements : Names(s, rule, elements) => rule = "start_spacing"
    BY <1>1, <1>10, SpacingAdds
  <2>3. Steps(s)
    BY <2>2 DEF CountedIds
  <2> QED BY <1>3, <2>1, <2>3 DEF budgetVars
<1>11. CASE SkipBudget
  <2>1. /\ coverage' = Cover(coverage, {"loop_registers"} \cap {Budgets[nextBudget].id},
                             "not_applicable")
        /\ sink' = sink /\ results' = results /\ phase = "budgets" /\ phase' = phase
    BY <1>11 DEF SkipBudget
  <2>2. ({"loop_registers"} \cap {Budgets[nextBudget].id}) \cap CountedIds = {}
    BY DEF CountedIds
  <2>3. \A id \in CountedIds : coverage'[id] = "indeterminate" <=> coverage[id] = "indeterminate"
    BY <1>6, <2>1, <2>2
  <2>4. Steps(<< >>)
    BY <1>2, <2>1
  <2> QED BY <1>2, <1>3, <2>1, <2>3, <2>4
<1>12. CASE CountBudget /\ ~ToolError
  BY <1>12, CountNotMasked
<1>13. CASE Finish \/ Idle \/ UNCHANGED vars
  BY <1>4, <1>13 DEF Finish, Idle, vars, budgetVars
<1> QED BY <1>5, <1>7, <1>8, <1>9, <1>10, <1>11, <1>12, <1>13 DEF Next

(* At the start nothing was counted.                                       *)
LEMMA InitNotMasked ==
    ASSUME Init PROVE NotMasked
<1>1. /\ results = << >> /\ sink = << >> /\ nextBudget = 1
      /\ coverage = [k \in Classes |-> "not_applicable"]
  BY DEF Init
<1>2. ASSUME NEW id \in CountedIds PROVE ClassHonest(id)
  <2>1. coverage[id] # "indeterminate"
    BY <1>1, CountedApart
  <2>2. Tally(sink, RejectedAs(id)) = 0 /\ Tally(results, Exceeded(id)) = 0
    BY <1>1, TallyOne
  <2> QED BY <1>1, <2>1, <2>2 DEF ClassHonest
<1> QED BY <1>1, <1>2, EmptySeq DEF NotMasked

-----------------------------------------------------------------------------
(* The budgets that are not skipped have their results in their order.     *)
Kept(m) == {k \in 1 .. m : ~Skipped(Budgets[k])}

Place(m) == Cardinality(Kept(m))

Answers(n) ==
    /\ Len(results) = Place(n)
    /\ \A m \in Kept(n) : results[Place(m)] = ResultOf(Budgets[m])

AnsweredSoFar ==
    /\ phase \in {"budgets", "done"} => \A n \in Nat : n + 1 = nextBudget => Answers(n)
    /\ phase = "done" => nextBudget = Len(Budgets) + 1

(* The place of a budget that is kept is one of those up to any later one. *)
LEMMA PlaceIs ==
    ASSUME NEW n \in Nat, NEW m \in Kept(n)
    PROVE  Place(m) \in 1 .. Place(n) /\ Place(n) \in Nat
<1>1. Kept(m) \in SUBSET Kept(n) /\ m \in Kept(m)
  BY DEF Kept
<1>2. IsFiniteSet(Kept(n))
  <2>1. Kept(n) \in SUBSET (1 .. n) /\ n \in Int
    BY DEF Kept
  <2>2. IsFiniteSet(1 .. n)
    BY <2>1, FS_Interval
  <2> QED BY <2>1, <2>2, FS_Subset
<1>3. IsFiniteSet(Kept(m)) /\ Cardinality(Kept(m)) <= Cardinality(Kept(n))
  BY <1>1, <1>2, FS_Subset
<1>4. Cardinality(Kept(m)) \in Nat /\ Cardinality(Kept(n)) \in Nat
  BY <1>2, <1>3, FS_CardinalityType
<1>5. Cardinality(Kept(m)) # 0
  BY <1>1, <1>3, FS_EmptySet
<1> QED BY <1>3, <1>4, <1>5 DEF Place

(* One budget more is one place more, if it is kept.                       *)
LEMMA PlaceGrows ==
    ASSUME NEW n \in Nat \ {0}
    PROVE  /\ Kept(n) = Kept(n - 1) \cup IF Skipped(Budgets[n]) THEN {} ELSE {n}
           /\ Place(n) = Place(n - 1) + One(~Skipped(Budgets[n]))
           /\ Place(n - 1) \in Nat
<1>1. Kept(n) = Kept(n - 1) \cup IF Skipped(Budgets[n]) THEN {} ELSE {n}
  <2>1. 1 .. n = (1 .. n - 1) \cup {n}
    OBVIOUS
  <2> QED BY <2>1 DEF Kept
<1>2. IsFiniteSet(Kept(n - 1)) /\ n \notin Kept(n - 1)
  <2>1. Kept(n - 1) \in SUBSET (1 .. n - 1) /\ n - 1 \in Int
    BY DEF Kept
  <2>2. IsFiniteSet(1 .. n - 1)
    BY <2>1, FS_Interval
  <2> QED BY <2>1, <2>2, FS_Subset
<1>3. /\ Cardinality(Kept(n - 1)) \in Nat
      /\ Cardinality(Kept(n - 1) \cup {n}) = Cardinality(Kept(n - 1)) + 1
  BY <1>2, FS_AddElement, FS_CardinalityType
<1>4. CASE Skipped(Budgets[n])
  <2>1. Kept(n) = Kept(n - 1)
    BY <1>1, <1>4
  <2> QED BY <1>1, <1>3, <1>4, <2>1 DEF Place, One
<1>5. CASE ~Skipped(Budgets[n])
  <2>1. Kept(n) = Kept(n - 1) \cup {n}
    BY <1>1, <1>5
  <2> QED BY <1>1, <1>3, <1>5, <2>1 DEF Place, One
<1> QED BY <1>4, <1>5

(* While the budgets are gone through, what they count stands.             *)
LEMMA BudgetsStand ==
    ASSUME prog' = prog, states' = states, outputs' = outputs, wfPlayed' = wfPlayed
    PROVE  /\ \A m : Kept(m)' = Kept(m) /\ Place(m)' = Place(m)
           /\ \A m \in 1 .. Len(Budgets) : ResultOf(Budgets[m])' = ResultOf(Budgets[m])
<1>1. ASSUME NEW CONSTANT b
      PROVE  Skipped(b)' = Skipped(b) /\ ResultOf(b)' = ResultOf(b)
  <2>1. Applicable(b)' = Applicable(b)
    BY DEF Applicable, Applies
  <2>2. Skipped(b)' = Skipped(b)
    BY <2>1 DEF Skipped
  <2>3. FrameBounds(b)' = FrameBounds(b)
    BY <2>1 DEF FrameBounds, MostItems
  <2>4. BudgetBounds(b)' = BudgetBounds(b)
    BY <2>3 DEF BudgetBounds
  <2> QED BY <2>2, <2>4 DEF ResultOf
<1>2. ASSUME NEW CONSTANT m
      PROVE  Kept(m)' = Kept(m) /\ Place(m)' = Place(m)
  <2>1. Kept(m)' = Kept(m)
    BY <1>1 DEF Kept
  <2> QED BY <2>1 DEF Place
<1> QED BY <1>1, <1>2

(* A budget that is gone past has its result, and the others keep theirs.  *)
LEMMA BudgetAnswered ==
    ASSUME results \in Seq(ResultRecord), NEW CONSTANT n \in 1 .. Len(Budgets), Answers(n - 1),
           UNCHANGED << progVars, envVars >>,
           results' = IF Skipped(Budgets[n]) THEN results
                      ELSE Append(results, ResultOf(Budgets[n])),
           ~Skipped(Budgets[n]) => ResultOf(Budgets[n]) \in ResultRecord
    PROVE  Answers(n)'
<1>1. n \in Nat \ {0} /\ n - 1 \in Nat
  BY BudgetAssumption
<1>2. /\ prog' = prog /\ states' = states /\ outputs' = outputs /\ wfPlayed' = wfPlayed
  BY DEF progVars, envVars
<1>3. /\ \A m : Kept(m)' = Kept(m) /\ Place(m)' = Place(m)
      /\ \A m \in 1 .. Len(Budgets) : ResultOf(Budgets[m])' = ResultOf(Budgets[m])
  BY <1>2, BudgetsStand
<1>4. \A m \in Kept(n) : m \in 1 .. Len(Budgets)
  BY <1>1, BudgetAssumption DEF Kept
<1>5. /\ Len(results) = Place(n - 1)
      /\ \A m \in Kept(n - 1) : results[Place(m)] = ResultOf(Budgets[m])
  BY DEF Answers
<1>6. /\ Kept(n) = Kept(n - 1) \cup IF Skipped(Budgets[n]) THEN {} ELSE {n}
      /\ Place(n) = Place(n - 1) + One(~Skipped(Budgets[n])) /\ Place(n - 1) \in Nat
  BY <1>1, PlaceGrows
<1>7. \A m \in Kept(n - 1) : Place(m) \in 1 .. Place(n - 1)
  BY <1>1, PlaceIs
<1>8. Len(results') = Place(n) /\ \A m \in Kept(n) : results'[Place(m)] = ResultOf(Budgets[m])
  <2>1. CASE Skipped(Budgets[n])
    BY <1>5, <1>6, <2>1 DEF One
  <2>2. CASE ~Skipped(Budgets[n])
    <3>1. results' = Append(results, ResultOf(Budgets[n]))
      BY <2>2
    <3>2. /\ Len(results') = Len(results) + 1
          /\ \A i \in 1 .. Len(results) : results'[i] = results[i]
          /\ results'[Len(results) + 1] = ResultOf(Budgets[n])
      BY <2>2, <3>1, OneMore
    <3>3. Place(n) = Place(n - 1) + 1 /\ Kept(n) = Kept(n - 1) \cup {n}
      BY <1>6, <2>2 DEF One
    <3> QED BY <1>5, <1>7, <3>2, <3>3
  <2> QED BY <2>1, <2>2
<1> QED BY <1>3, <1>4, <1>8 DEF Answers

(* Every step keeps AnsweredSoFar. *)
LEMMA StepAnswered ==
    ASSUME HInv, CountsRight, NotMasked, AnsweredSoFar, [Next]_vars
    PROVE  AnsweredSoFar'
<1>1. /\ Typed /\ IInv /\ results \in Seq(ResultRecord)
      /\ nextBudget \in Nat \ {0} /\ nextBudget \in 1 .. Len(Budgets) + 1 /\ Len(Budgets) \in Nat
  BY BudgetAssumption DEF HInv, IInv, NotMasked, Typed
<1>2. CASE phase' \notin {"budgets", "done"}
  BY <1>2 DEF AnsweredSoFar
<1>3. CASE \E el \in ElementSet : ReadElement(el) /\ ~ToolError
  BY <1>2, <1>3, ElementGoesOn
<1>4. CASE ToolError
  BY <1>2, <1>4 DEF ToolError
<1>5. CASE Bind /\ ~ToolError
  BY <1>2, <1>5 DEF Bind
<1>6. CASE (EndOfProgram \/ CloseSlots) /\ ~ToolError
  BY <1>2, <1>6 DEF EndOfProgram, CloseSlots
<1>7. CASE CloseSpacing /\ ~ToolError
  <2>1. phase = "spacing" /\ phase' = "budgets" /\ UNCHANGED budgetVars
    BY <1>7 DEF CloseSpacing
  <2>2. results' = << >> /\ nextBudget' = 1
    BY <2>1 DEF NotMasked, budgetVars
  <2>3. Kept(0)' = {} /\ Place(0)' = 0
    <3>1. Kept(0)' = {}
      BY DEF Kept
    <3> QED BY <3>1, FS_EmptySet DEF Place
  <2>4. Answers(0)'
    BY <2>2, <2>3 DEF Answers
  <2> QED BY <2>1, <2>2, <2>4 DEF AnsweredSoFar
<1>8. ASSUME phase = "budgets", phase' = phase, nextBudget \in 1 .. Len(Budgets),
             nextBudget' = nextBudget + 1, UNCHANGED << progVars, envVars >>,
             results' = IF Skipped(Budgets[nextBudget]) THEN results
                        ELSE Append(results, ResultOf(Budgets[nextBudget])),
             ~Skipped(Budgets[nextBudget]) => ResultOf(Budgets[nextBudget]) \in ResultRecord
      PROVE  AnsweredSoFar'
  <2>1. PICK n \in 1 .. Len(Budgets) : n = nextBudget
    BY <1>8
  <2>2. n \in Nat /\ n - 1 \in Nat /\ (n - 1) + 1 = nextBudget
    BY <1>1, <2>1
  <2>3. Answers(n - 1)
    BY <1>8, <2>2 DEF AnsweredSoFar
  <2>4. Answers(n)'
    BY <1>1, <1>8, <2>1, <2>3, BudgetAnswered
  <2>5. \A k \in Nat : k + 1 = nextBudget' => k = n
    BY <1>1, <1>8, <2>1
  <2> QED BY <1>8, <2>4, <2>5 DEF AnsweredSoFar
<1>9. CASE SkipBudget
  BY <1>1, <1>8, <1>9 DEF SkipBudget
<1>10. CASE CountBudget /\ ~ToolError
  <2> DEFINE b == Budgets[nextBudget]
  <2>1. nextBudget \in 1 .. Len(Budgets) /\ ValidDescriptor
    BY <1>1, <1>10, BudgetAssumption DEF HInv, CountBudget, Typed
  <2>2. ValidBudget(b)
    BY <2>1, BudgetAssumption DEF ValidDescriptor
  <2>3. ~Skipped(b) => ResultOf(b) \in ResultRecord
    BY <1>1, <2>1, <2>2, ResultIs
  <2>4. /\ phase = "budgets" /\ phase' = phase /\ ~Skipped(b)
        /\ nextBudget' = nextBudget + 1 /\ UNCHANGED << progVars, envVars >>
        /\ results' = Append(results, ResultOf(b))
    BY <1>10 DEF CountBudget, ResultOf
  <2> HIDE DEF b
  <2> QED BY <2>1, <2>3, <2>4, <1>8 DEF b
<1>11. ASSUME Finish \/ Idle \/ UNCHANGED vars, phase' \in {"budgets", "done"}
       PROVE  AnsweredSoFar'
  <2>1. /\ phase \in {"budgets", "done"} /\ UNCHANGED << progVars, envVars, budgetVars >>
        /\ phase' = "done" => nextBudget = Len(Budgets) + 1
    <3>1. CASE Finish
      <4>1. nextBudget > Len(Budgets)
        BY <3>1 DEF Finish
      <4>2. nextBudget = Len(Budgets) + 1
        BY <1>1, <4>1
      <4> QED BY <3>1, <4>2 DEF Finish
    <3>2. CASE Idle \/ UNCHANGED vars
      BY <1>11, <3>2 DEF Idle, vars, AnsweredSoFar
    <3> QED BY <1>11, <3>1, <3>2
  <2>2. /\ prog' = prog /\ states' = states /\ outputs' = outputs /\ wfPlayed' = wfPlayed
        /\ results' = results /\ nextBudget' = nextBudget
    BY <2>1 DEF progVars, envVars, budgetVars
  <2>3. ASSUME NEW n \in Nat, n + 1 = nextBudget', nextBudget' = nextBudget PROVE Answers(n)'
    <3>1. Answers(n) /\ \A m \in Kept(n) : m \in 1 .. Len(Budgets)
      BY <1>1, <2>1, <2>2, <2>3 DEF AnsweredSoFar, Kept
    <3>2. /\ \A m : Kept(m)' = Kept(m) /\ Place(m)' = Place(m)
          /\ \A m \in 1 .. Len(Budgets) : ResultOf(Budgets[m])' = ResultOf(Budgets[m])
      BY <2>2, BudgetsStand
    <3> QED BY <2>2, <3>1, <3>2 DEF Answers
  <2> QED BY <2>1, <2>2, <2>3 DEF AnsweredSoFar
<1> QED BY <1>2, <1>3, <1>4, <1>5, <1>6, <1>7, <1>9, <1>10, <1>11 DEF Next

-----------------------------------------------------------------------------
(* The budgets answered so far say what was counted, and what was counted  *)
(* is what the program holds.                                              *)
BInv == HInv /\ CountsRight /\ NotMasked /\ AnsweredSoFar

(* At the end no result of a class hides another.                          *)
LEMMA NothingMasked ==
    ASSUME sink \in Seq(Rejected), NotMasked PROVE BudgetsNotMasked
<1> SUFFICES ASSUME NEW id \in CountedIds
             PROVE  LET counted == {n \in DOMAIN results : results[n].id = id}
                        within(n) == results[n].lower <= results[n].limit
                        beyond(n) == results[n].upper > results[n].limit
                    IN  /\ coverage[id] = "indeterminate" <=> \E n \in counted : within(n) /\ beyond(n)
                        /\ Cardinality({n \in DOMAIN sink : sink[n].rule = id})
                               = Cardinality({n \in counted : ~within(n) /\ beyond(n)})
  BY DEF BudgetsNotMasked, CountedIds
<1>1. ClassHonest(id) /\ results \in Seq(ResultRecord)
  BY DEF NotMasked
<1>2. \A n \in DOMAIN results : results[n] \in ResultRecord
  BY <1>1, LenProperties, ElementOfSeq
<1>3. \A n \in DOMAIN sink : sink[n] \in Rejected
  BY LenProperties, ElementOfSeq
<1>4. {n \in DOMAIN sink : sink[n].rule = id} = {n \in DOMAIN sink : sink[n] \in RejectedAs(id)}
  BY <1>3 DEF RejectedAs
<1>5. {n \in {n \in DOMAIN results : results[n].id = id} :
           ~(results[n].lower <= results[n].limit) /\ results[n].upper > results[n].limit}
          = {n \in DOMAIN results : results[n] \in Exceeded(id)}
  BY <1>2 DEF Exceeded
<1>6. (\E n \in DOMAIN results : results[n] \in Undecided(id))
          <=> \E n \in {n \in DOMAIN results : results[n].id = id} :
                  results[n].lower <= results[n].limit /\ results[n].upper > results[n].limit
  BY <1>2 DEF Undecided
<1>7. coverage[id] = "indeterminate"
          <=> \E n \in {n \in DOMAIN results : results[n].id = id} :
                  results[n].lower <= results[n].limit /\ results[n].upper > results[n].limit
  BY <1>1, <1>6 DEF ClassHonest
<1>8. Cardinality({n \in DOMAIN sink : sink[n].rule = id})
          = Cardinality({n \in {n \in DOMAIN results : results[n].id = id} :
                ~(results[n].lower <= results[n].limit) /\ results[n].upper > results[n].limit})
  BY <1>1, <1>4, <1>5 DEF ClassHonest, Tally
<1> QED BY <1>7, <1>8

(* What the checker counted is what the program holds. *)
LEMMA CountedIsHeld ==
    ASSUME CountsRight
    PROVE  /\ \A f \in Frames : /\ Cardinality(Mentions(f)) = states[f].nElements
                                /\ Cardinality(On(f, Outputs)) = states[f].nOutputs
                                /\ Mentions(f) # {} <=> states[f].nElements > 0
           /\ Cardinality(AllOutputs) = outputs
           /\ WaveformsPlayed = wfPlayed
<1>1. ASSUME NEW f \in Frames
      PROVE  /\ Cardinality(Mentions(f)) = states[f].nElements
             /\ Cardinality(On(f, Outputs)) = states[f].nOutputs
             /\ Mentions(f) # {} <=> states[f].nElements > 0
  <2>1. Mentions(f) = MentionsIn(prog, f)
    BY DEF Mentions, MentionsIn
  <2>2. IsFiniteSet(Mentions(f)) /\ Cardinality(Mentions(f)) = states[f].nElements
    BY <2>1 DEF CountsRight
  <2>3. Mentions(f) # {} <=> Cardinality(Mentions(f)) > 0
    BY <2>2, FS_EmptySet, FS_CardinalityType
  <2> QED BY <2>2, <2>3, OnIsPlaced DEF CountsRight
<1>2. AllOutputs = OutputsOf(prog) /\ WaveformsPlayed = PlayedBy(prog)
  BY DEF AllOutputs, OutputsOf, WaveformsPlayed, PlayedBy, PlaysWaveform
<1> QED BY <1>1, <1>2 DEF CountsRight

(* A budget is answered when it is not skipped.                            *)
LEMMA AnsweredIsKept ==
    ASSUME CountsRight
    PROVE  \A b : /\ FramesCounted(b) = Applicable(b)
                  /\ Answered(b) <=> ~Skipped(b)
<1>1. ASSUME NEW b PROVE FramesCounted(b) = Applicable(b)
  BY CountedIsHeld DEF FramesCounted, Applicable, Applies
<1> QED BY <1>1 DEF Answered, Skipped

(* At the end every budget that bounds something has its answer.           *)
LEMMA EveryAnswer ==
    ASSUME BInv, phase = "done", NEW m \in DOMAIN Budgets, Answered(Budgets[m])
    PROVE  Answer(m) = ResultOf(Budgets[m])
<1>1. Len(Budgets) \in Nat /\ Len(Budgets) + 1 = nextBudget /\ m \in 1 .. Len(Budgets)
  BY BudgetAssumption DEF BInv, AnsweredSoFar
<1>2. Answers(Len(Budgets))
  BY <1>1 DEF BInv, AnsweredSoFar
<1>3. \A b : Answered(b) <=> ~Skipped(b)
  BY AnsweredIsKept DEF BInv
<1>4. m \in Kept(Len(Budgets))
  BY <1>1, <1>3 DEF Kept
<1>5. {k \in 1 .. m : Answered(Budgets[k])} = Kept(m)
  BY <1>3 DEF Kept
<1> QED BY <1>2, <1>4, <1>5 DEF Answers, Answer, Place

(* A budget per frame is decided by the frames one by one.                 *)
LEMMA FramesDecide ==
    ASSUME Typed, CountsRight, NEW m \in 1 .. Len(Budgets), NEW b, b = Budgets[m],
           Applicable(b) # {}
    PROVE  LET verdict == BudgetVerdict(FrameBounds(b), b.limit)
           IN  /\ verdict = "fits" <=> \A f \in FramesCounted(b) : Most(b, f) <= b.limit
               /\ verdict = "violates" <=> /\ \E f \in FramesCounted(b) : Least(b, f) > b.limit
                                           /\ \E f \in FramesCounted(b) : Most(b, f) > b.limit
<1> DEFINE verdict == BudgetVerdict(FrameBounds(b), b.limit)
           lower == FrameBounds(b).lower
           upper == FrameBounds(b).upper
           F == Applicable(b)
<1>1. /\ lower \in Int /\ upper \in Int /\ b.limit \in Int
      /\ \A f \in F : Least(b, f) \in Int /\ Most(b, f) \in Int
  BY FrameBoundsAre, BudgetFields
<1>2. /\ \E f \in F : lower = Least(b, f)
      /\ \A f \in F : Least(b, f) <= lower
      /\ \E f \in F : upper = Most(b, f)
      /\ \A f \in F : Most(b, f) <= upper
  BY FrameBoundsAre
<1>3. verdict = IF upper <= b.limit THEN "fits"
                ELSE IF lower > b.limit THEN "violates" ELSE "indeterminate"
  BY DEF BudgetVerdict
<1> HIDE DEF verdict, lower, upper
<1>4. upper <= b.limit <=> \A f \in F : Most(b, f) <= b.limit
  <2> HIDE DEF F
  <2>1. ASSUME upper <= b.limit, NEW f \in F PROVE Most(b, f) <= b.limit
    BY <1>1, <1>2, <2>1
  <2> QED BY <1>1, <1>2, <2>1
<1>5. lower > b.limit <=> \E f \in F : Least(b, f) > b.limit
  <2> HIDE DEF F
  <2>1. ASSUME NEW f \in F, Least(b, f) > b.limit PROVE lower > b.limit
    BY <1>1, <1>2, <2>1
  <2> QED BY <1>1, <1>2, <2>1
<1>6. ~(upper <= b.limit) <=> \E f \in F : Most(b, f) > b.limit
  <2> HIDE DEF F
  <2> QED BY <1>1, <1>4
<1>7. F = FramesCounted(b)
  BY AnsweredIsKept
<1> HIDE DEF F
<1>8. /\ verdict = "fits" <=> upper <= b.limit
      /\ verdict = "violates" <=> ~(upper <= b.limit) /\ lower > b.limit
  BY <1>3
<1> QED BY <1>4, <1>5, <1>6, <1>7, <1>8 DEF verdict

(* Its answer is about what it bounds.                                     *)
LEMMA AllAnswered ==
    ASSUME BInv PROVE BudgetsAnswered
<1> SUFFICES ASSUME phase = "done", NEW m \in DOMAIN Budgets, Answered(Budgets[m])
             PROVE
        LET b        == Budgets[m]
            doubled  == b.perElementMax = Absent
            cost(n)  == Cost(b.perItem, n, b.overhead)
            least(f) == cost(Cardinality(On(f, Outputs)))
            most(f)  == LET n == Cardinality(Mentions(f))
                        IN  Cost(PerElement(b), IF doubled THEN 2 * n ELSE n, b.overhead)
        IN  /\ Answer(m).id = b.id /\ Answer(m).limit = b.limit
            /\ b.id = "wmem_words" =>
                  {Answer(m).lower, Answer(m).upper} = {cost(Cardinality(WaveformsPlayed))}
            /\ b.id = "pmem_words" /\ ~b.perFrame =>
                  /\ Answer(m).lower = cost(Cardinality(AllOutputs))
                  /\ Answer(m).upper = cost(2 * Len(prog))
            /\ b.perFrame =>
                  /\ Answer(m).verdict = "fits" <=> \A f \in FramesCounted(b) : most(f) <= b.limit
                  /\ Answer(m).verdict = "violates" <=>
                         /\ \E f \in FramesCounted(b) : least(f) > b.limit
                         /\ \E f \in FramesCounted(b) : most(f) > b.limit
  BY DEF BudgetsAnswered
<1> DEFINE b == Budgets[m]
<1>1. /\ Typed /\ CountsRight /\ m \in 1 .. Len(Budgets) /\ ~Skipped(b) /\ ValidBudget(b)
  <2>1. ValidDescriptor /\ Typed /\ CountsRight
    BY DEF BInv, HInv, IInv
  <2> QED BY <2>1, BudgetAssumption, AnsweredIsKept DEF ValidDescriptor
<1>2. Answer(m) = ResultOf(b)
  BY EveryAnswer
<1> HIDE DEF b
<1>3. /\ Answer(m).id = b.id /\ Answer(m).limit = b.limit
      /\ Answer(m).lower = BudgetBounds(b).lower /\ Answer(m).upper = BudgetBounds(b).upper
      /\ Answer(m).verdict = BudgetVerdict(BudgetBounds(b), b.limit)
  BY <1>2 DEF ResultOf
<1>4. CASE b.id = "wmem_words"
  <2>1. ~b.perFrame
    BY <1>1, <1>4, BoundsAre
  <2>2. /\ Answer(m).lower = Cost(b.perItem, Cardinality(WaveformsPlayed), b.overhead)
        /\ Answer(m).upper = Cost(b.perItem, Cardinality(WaveformsPlayed), b.overhead)
    BY <1>1, <1>3, <1>4, BoundsAre, CountedIsHeld
  <2> QED BY <1>3, <1>4, <2>1, <2>2 DEF b
<1>5. CASE b.id # "wmem_words" /\ ~b.perFrame
  <2>1. /\ Answer(m).lower = Cost(b.perItem, Cardinality(AllOutputs), b.overhead)
        /\ Answer(m).upper = Cost(b.perItem, 2 * Len(prog), b.overhead)
    BY <1>1, <1>3, <1>5, BoundsAre, CountedIsHeld
  <2> QED BY <1>3, <1>5, <2>1 DEF b
<1>6. CASE b.id # "wmem_words" /\ b.perFrame
  <2>1. Answer(m).verdict = BudgetVerdict(FrameBounds(b), b.limit)
    BY <1>1, <1>3, <1>6, BoundsAre
  <2>2. Applicable(b) # {} /\ \A f \in FramesCounted(b) : f \in Frames
    BY <1>1, <1>6 DEF Skipped, FramesCounted
  <2>3. /\ Answer(m).verdict = "fits" <=> \A f \in FramesCounted(b) : Most(b, f) <= b.limit
        /\ Answer(m).verdict = "violates" <=> /\ \E f \in FramesCounted(b) : Least(b, f) > b.limit
                                              /\ \E f \in FramesCounted(b) : Most(b, f) > b.limit
    <3>1. b = Budgets[m]
      BY DEF b
    <3> QED BY <1>1, <2>1, <2>2, <3>1, FramesDecide
  <2> DEFINE n(f) == Cardinality(Mentions(f))
             most(f) == Cost(PerElement(b), IF b.perElementMax = Absent THEN 2 * n(f) ELSE n(f),
                             b.overhead)
             least(f) == Cost(b.perItem, Cardinality(On(f, Outputs)), b.overhead)
  <2>4. ASSUME NEW f \in FramesCounted(b) PROVE Most(b, f) = most(f) /\ Least(b, f) = least(f)
    <3>1. n(f) = states[f].nElements /\ Cardinality(On(f, Outputs)) = states[f].nOutputs
      BY <1>1, <2>2, CountedIsHeld
    <3> QED BY <3>1 DEF Most, Least, MostItems
  <2>5. /\ Answer(m).verdict = "fits" <=> \A f \in FramesCounted(b) : most(f) <= b.limit
        /\ Answer(m).verdict = "violates" <=> /\ \E f \in FramesCounted(b) : least(f) > b.limit
                                              /\ \E f \in FramesCounted(b) : most(f) > b.limit
    <3> HIDE DEF most, least
    <3> QED BY <2>3, <2>4
  <2> QED BY <1>3, <1>6, <2>5 DEF b
<1> QED BY <1>4, <1>5, <1>6

(* No budget is masked by another of its class, and each is answered by    *)
(* what it bounds.                                                         *)
THEOREM BudgetsHonestTheorem == HSpec => []BudgetsHonest
<1>1. HInit => BInv
  <2> SUFFICES ASSUME HInit PROVE BInv
    OBVIOUS
  <2>1. HInv /\ Init /\ phase = "start"
    BY InitHInv DEF HInit, Init
  <2>2. AnsweredSoFar
    BY <2>1 DEF AnsweredSoFar
  <2> QED BY <2>1, <2>2, InitCountsRight, InitNotMasked DEF BInv
<1>2. BInv /\ [HNext]_<< vars, before >> => BInv'
  <2> SUFFICES ASSUME BInv, [HNext]_<< vars, before >> PROVE BInv'
    OBVIOUS
  <2>1. HInv /\ CountsRight /\ NotMasked /\ AnsweredSoFar /\ IInv /\ sink \in Seq(Rejected)
    BY DEF BInv, HInv
  <2>2. [Next]_vars
    BY DEF HNext
  <2>3. HInv'
    BY <2>1, StepHInv
  <2>4. AnsweredSoFar'
    BY <2>1, <2>2, StepAnswered
  <2>5. CASE \E el \in ElementSet : ReadElement(el) /\ ~ToolError
    <3>1. CountsRight' /\ NotMasked'
      BY <2>1, <2>5, ElementCountsRight, ElementNotMasked
    <3> QED BY <2>3, <2>4, <3>1 DEF BInv
  <2>6. CASE ~\E el \in ElementSet : ReadElement(el) /\ ~ToolError
    <3>1. CountsRight' /\ NotMasked'
      BY <2>1, <2>2, <2>6, OtherCountsRight, OtherNotMasked
    <3> QED BY <2>3, <2>4, <3>1 DEF BInv
  <2> QED BY <2>5, <2>6
<1>3. BInv => BudgetsHonest
  BY NothingMasked, AllAnswered DEF BInv, HInv, BudgetsHonest
<1> QED BY <1>1, <1>2, <1>3, PTL DEF HSpec

-----------------------------------------------------------------------------
-----------------------------------------------------------------------------
(* Phase.  What the phase rule says of a phase, whichever element it is    *)
(* asked at.                                                               *)
PhaseBreaks(c, v) == PhaseChecks(c) /\ OffStep(Constraint(c, "phase_resolution"), v)

(* The phase rule names the element at which a phase is off its step.      *)
LEMMA PhaseNames ==
    ASSUME NEW c \in DOMAIN Device, NEW v, NEW e
    PROVE  /\ PhaseRejections(c, v, e) # << >> <=> PhaseBreaks(c, v)
           /\ Names(PhaseRejections(c, v, e), "phase_resolution", {e}) <=> PhaseBreaks(c, v)
<1> DEFINE k == Constraint(c, "phase_resolution")
           one == Rejection("phase_resolution", k.severity, "quantize_phase", e)
<1>1. CASE PhaseBreaks(c, v)
  <2>1. PhaseRejections(c, v, e) = << one >>
    BY <1>1 DEF PhaseRejections, PhaseBreaks, When
  <2>2. one.rule = "phase_resolution" /\ one.element = e
    BY DEF Rejection
  <2> HIDE DEF one
  <2>3. ToSet(<< one >>) = {one} /\ << one >> # << >>
    BY DEF ToSet
  <2> QED BY <1>1, <2>1, <2>2, <2>3 DEF Names
<1>2. CASE ~PhaseBreaks(c, v)
  <2>1. PhaseRejections(c, v, e) = << >>
    BY <1>2 DEF PhaseRejections, PhaseBreaks, When
  <2> QED BY <1>2, <2>1, NamesNone
<1> QED BY <1>1, <1>2

(* The sum of two phases on a step is on it.                               *)
LEMMA OnStepSum ==
    ASSUME NEW q \in Nat \ {0}, NEW a \in Int, NEW b \in Int, Divides(q, a), Divides(q, b)
    PROVE  Divides(q, a + b)
<1>1. PICK m \in Int : a = m * q
  BY ExactQuotient
<1>2. PICK n \in Int : b = n * q
  BY ExactQuotient
<1>3. a + b = (m + n) * q
  BY <1>1, <1>2
<1>4. ((m + n) * q) % q = 0
  <2>1. PICK x \in Int : x = m + n
    OBVIOUS
  <2>2. (x * q) % q = 0
    OBVIOUS
  <2> QED BY <2>1, <2>2
<1> QED BY <1>3, <1>4 DEF Divides

(* A phase that is off its step was reached by a shift that is, or from    *)
(* one that was.                                                           *)
LEMMA ShiftBreaks ==
    ASSUME NEW c \in DOMAIN Device, ~PhaseRefused(c), NEW v \in Int, NEW d \in Int,
           PhaseBreaks(c, v + d)
    PROVE  PhaseBreaks(c, v) \/ PhaseBreaks(c, d)
<1> DEFINE k == Constraint(c, "phase_resolution")
<1>1. /\ Declared(c, "phase_resolution") /\ k.resolution # Absent /\ k.resolution # 0
      /\ PhaseChecks(c)
  BY DEF PhaseBreaks, PhaseChecks, PhaseRefused, ZeroStep
<1>2. k \in ConstraintRecord
  BY <1>1, DeclaredConstraint
<1>3. k.resolution \in Int
  BY <1>1, <1>2 DEF ConstraintRecord
<1>4. Quantum(k) \in Nat \ {0}
  <2> HIDE DEF k
  <2> QED BY <1>1, <1>3 DEF Quantum, Magnitude
<1>5. Divides(Quantum(k), v) /\ Divides(Quantum(k), d) => Divides(Quantum(k), v + d)
  <2> HIDE DEF k
  <2> QED BY <1>4, OnStepSum
<1> QED BY <1>1, <1>5 DEF PhaseBreaks, OffStep

-----------------------------------------------------------------------------
(* What an element does to the phase of a frame: only a shift of its own   *)
(* moves it, and only an output of its own looks at it.                    *)
SamePhase(st, after) ==
    after.phase = st.phase /\ after.phaseChecked = st.phaseChecked

LEMMA StepsKeepPhase ==
    ASSUME NEW f, NEW st \in FrameRecord, NEW e, NEW kind, NEW n
    PROVE  /\ SamePhase(st, Counted(st))
           /\ SamePhase(st, [st EXCEPT !.nOutputs = n])
           /\ SamePhase(st, [st EXCEPT !.captureLength = n])
           /\ SamePhase(st, Noted(f, st, e, kind))
           /\ SamePhase(st, Advanced(f, st, n))
           /\ FirstUse(f, st).phase = st.phase
           /\ FirstUse(f, st).phaseChecked <=> st.phaseChecked \/ ~HasTones(ChannelOf(f))
<1>1. SamePhase(st, Counted(st))
  BY DEF Counted, FrameRecord, SamePhase
<1>2. SamePhase(st, [st EXCEPT !.nOutputs = n]) /\ SamePhase(st, [st EXCEPT !.captureLength = n])
  BY DEF FrameRecord, SamePhase
<1>3. SamePhase(st, Noted(f, st, e, kind))
  BY DEF Noted, FrameRecord, SamePhase
<1>4. SamePhase(st, Advanced(f, st, n))
  BY DEF Advanced, FrameRecord, SamePhase
<1>5. /\ FirstUse(f, st).phase = st.phase
      /\ FirstUse(f, st).phaseChecked <=> st.phaseChecked \/ ~HasTones(ChannelOf(f))
  BY DEF FirstUse, FrameRecord
<1> QED BY <1>1, <1>2, <1>3, <1>4, <1>5

Turns(el, f, st, after) ==
    /\ after.phase = IF el.kind = "shift_phase" /\ el.frame = f THEN st.phase + el.phase
                     ELSE st.phase
    /\ after.phaseChecked <=> \/ st.phaseChecked
                              \/ /\ el.kind \in Outputs /\ el.frame = f
                                 /\ ~HasTones(ChannelOf(f))

(* An output looks at the phase of its frame and leaves it.                *)
LEMMA OutputTurns ==
    ASSUME IInv, NEW el \in ElementSet, NEW kind \in Outputs, Reads(el, kind), NEW as
    PROVE  LET f     == el.frame
               after == OutputState(el, as)
           IN  after \in FrameRecord /\ Turns(el, f, states[f], after)
<1> DEFINE f  == el.frame
           st == states[f]
           s0 == Counted(st)
           s1 == [s0 EXCEPT !.nOutputs = @ + 1]
           s2 == FirstUse(f, s1)
           s3 == Noted(f, s2, Element, as)
           s4 == Advanced(f, s3, el.duration)
<1>1. /\ f \in Frames /\ st \in FrameRecord /\ Element \in Nat /\ el.kind = kind
  BY Reading DEF Outputs
<1>2. s0 \in FrameRecord /\ s1 \in FrameRecord
  BY <1>1, CountedAlike
<1>3. SamePhase(st, s0)
  BY <1>1, StepsKeepPhase
<1> HIDE DEF s0
<1>4. SamePhase(s0, s1)
  <2>1. s1 = [s0 EXCEPT !.nOutputs = s0.nOutputs + 1]
    OBVIOUS
  <2>2. SamePhase(s0, [s0 EXCEPT !.nOutputs = s0.nOutputs + 1])
    BY <1>2, StepsKeepPhase
  <2> QED BY <2>1, <2>2
<1> HIDE DEF s1
<1>5. /\ s2 \in FrameRecord /\ s2.phase = s1.phase
      /\ s2.phaseChecked <=> s1.phaseChecked \/ ~HasTones(ChannelOf(f))
  BY <1>2, StepsKeepPhase, FirstUseAlike
<1> HIDE DEF s2
<1>6. s3 \in FrameRecord /\ SamePhase(s2, s3)
  BY <1>1, <1>5, StepsKeepPhase, NotedRecord
<1> HIDE DEF s3
<1>7. SamePhase(s3, s4)
  BY <1>6, StepsKeepPhase
<1> HIDE DEF s4
<1>8. Turns(el, f, st, s4)
  BY <1>1, <1>3, <1>4, <1>5, <1>6, <1>7 DEF Turns, SamePhase, Outputs
<1>9. s4 = OutputState(el, as)
  BY DEF OutputState, s4, s3, s2, s1, s0
<1>10. s4 \in FrameRecord
  BY <1>1, <1>9, OutputStateRecord DEF IInv, ChannelsBound, Reads, Outputs
<1> QED BY <1>8, <1>9, <1>10

(* An element turns its own frame, if any.                                 *)
LEMMA ElementTurns ==
    ASSUME IInv, NEW el \in ElementSet, ReadElement(el), ~ToolError, NEW f \in Frames
    PROVE  Turns(el, f, states[f], states'[f])
<1> DEFINE st == states[f]
<1>1. st \in FrameRecord /\ states = [g \in Frames |-> states[g]]
  BY DEF IInv, Typed
<1>2. ASSUME NEW after, states' = StateAfter(el.frame, after), el.frame \in Frames,
             Turns(el, el.frame, states[el.frame], after)
      PROVE  Turns(el, f, states[f], states'[f])
  BY <1>1, <1>2 DEF StateAfter, Turns
<1>3. CASE Barrier(el)
  <2>1. el.kind = "barrier"
    BY <1>3 DEF Barrier, Reads
  <2>2. PICK t : states' = [g \in Frames |-> IF g \in MemberSet(el) THEN Joined(g, el, t)
                                             ELSE states[g]]
    BY <1>3 DEF Barrier
  <2>3. SamePhase(st, Joined(f, el, t))
    BY <1>1 DEF Joined, SamePhase, FrameRecord
  <2>4. SamePhase(st, states'[f])
    BY <2>2, <2>3 DEF SamePhase
  <2> QED BY <2>1, <2>4 DEF Turns, SamePhase, Outputs
<1>4. CASE ShiftPhase(el)
  <2> DEFINE own   == states[el.frame]
             noted == Noted(el.frame, Counted(own), Element, "phase")
             after == [noted EXCEPT !.phase = @ + el.phase]
  <2>1. Reads(el, "shift_phase") /\ states' = StateAfter(el.frame, after)
    BY <1>4 DEF ShiftPhase
  <2>2. /\ el.frame \in Frames /\ own \in FrameRecord /\ Counted(own) \in FrameRecord
        /\ el.kind = "shift_phase" /\ Element \in Nat
    BY <2>1, Reading
  <2>3. noted \in FrameRecord /\ SamePhase(own, noted)
    <3> DEFINE counted == Counted(own)
    <3>1. counted \in FrameRecord /\ SamePhase(own, counted)
      BY <2>2, StepsKeepPhase
    <3> HIDE DEF counted, own
    <3>2. /\ Noted(el.frame, counted, Element, "phase") \in FrameRecord
          /\ SamePhase(counted, Noted(el.frame, counted, Element, "phase"))
      BY <2>2, <3>1, StepsKeepPhase, NotedRecord
    <3> QED BY <3>1, <3>2 DEF SamePhase, counted
  <2> HIDE DEF noted
  <2>4. after.phase = noted.phase + el.phase /\ after.phaseChecked = noted.phaseChecked
    BY <2>3 DEF FrameRecord
  <2>5. Turns(el, el.frame, own, after)
    BY <2>2, <2>3, <2>4 DEF Turns, SamePhase, Outputs
  <2> HIDE DEF own, after
  <2> QED BY <1>2, <2>1, <2>2, <2>5 DEF own
<1>5. CASE SetFrequency(el)
  <2> DEFINE own   == states[el.frame]
             noted == Noted(el.frame, Counted(own), Element, "frequency")
             after == Retuned(el.frame, noted, el.frequency)
  <2>1. Reads(el, "set_frequency") /\ states' = StateAfter(el.frame, after)
    BY <1>5 DEF SetFrequency
  <2>2. /\ el.frame \in Frames /\ own \in FrameRecord /\ Counted(own) \in FrameRecord
        /\ el.kind = "set_frequency" /\ Element \in Nat
    BY <2>1, Reading
  <2>3. noted \in FrameRecord /\ SamePhase(own, noted)
    <3> DEFINE counted == Counted(own)
    <3>1. counted \in FrameRecord /\ SamePhase(own, counted)
      BY <2>2, StepsKeepPhase
    <3> HIDE DEF counted, own
    <3>2. /\ Noted(el.frame, counted, Element, "frequency") \in FrameRecord
          /\ SamePhase(counted, Noted(el.frame, counted, Element, "frequency"))
      BY <2>2, <3>1, StepsKeepPhase, NotedRecord
    <3> QED BY <3>1, <3>2 DEF SamePhase, counted
  <2> HIDE DEF noted
  <2>4. after.phase = noted.phase /\ after.phaseChecked = noted.phaseChecked
    BY <2>3 DEF FrameRecord, Retuned
  <2>5. Turns(el, el.frame, own, after)
    BY <2>2, <2>3, <2>4 DEF Turns, SamePhase, Outputs
  <2> HIDE DEF own, after
  <2> QED BY <1>2, <2>1, <2>2, <2>5 DEF own
<1>6. CASE Delay(el)
  <2> DEFINE own   == states[el.frame]
             after == Advanced(el.frame, Counted(own), el.duration)
  <2>1. Reads(el, "delay") /\ states' = StateAfter(el.frame, after)
    BY <1>6 DEF Delay
  <2>2. /\ el.frame \in Frames /\ own \in FrameRecord /\ Counted(own) \in FrameRecord
        /\ el.kind = "delay"
    BY <2>1, Reading
  <2>3. SamePhase(own, after)
    <3> DEFINE counted == Counted(own)
    <3>1. counted \in FrameRecord /\ SamePhase(own, counted)
      BY <2>2, StepsKeepPhase
    <3> HIDE DEF counted, own
    <3>2. SamePhase(counted, Advanced(el.frame, counted, el.duration))
      BY <3>1, StepsKeepPhase
    <3> QED BY <3>1, <3>2 DEF SamePhase, counted
  <2>4. Turns(el, el.frame, own, after)
    BY <2>2, <2>3 DEF Turns, SamePhase, Outputs
  <2> HIDE DEF own, after
  <2> QED BY <1>2, <2>1, <2>2, <2>4 DEF own
<1>7. CASE Capture(el)
  <2> DEFINE own   == states[el.frame]
             after == OutputState(el, "capture")
             units == DurationUnits(el.frame, el.duration)
             fixed == [after EXCEPT !.captureLength = units]
  <2>1. Reads(el, "capture") /\ states' = StateAfter(el.frame, IF FixesLength(el.frame, own)
                                                               THEN fixed ELSE after)
    BY <1>7 DEF Capture
  <2>2. el.frame \in Frames
    BY <2>1, Reading
  <2>3. after \in FrameRecord /\ Turns(el, el.frame, own, after)
    BY <2>1, OutputTurns DEF Outputs
  <2> HIDE DEF own, after
  <2>4. SamePhase(after, fixed)
    BY <2>3, StepsKeepPhase
  <2>5. Turns(el, el.frame, own, fixed)
    BY <2>3, <2>4 DEF Turns, SamePhase
  <2> HIDE DEF fixed
  <2> QED BY <1>2, <2>1, <2>2, <2>3, <2>5 DEF own
<1>8. CASE Play(el)
  <2>1. Reads(el, "play") /\ states' = StateAfter(el.frame, OutputState(el, "output"))
    BY <1>8 DEF Play, PlayWaveform, PlayTones
  <2>2. el.frame \in Frames
    BY <2>1, Reading
  <2>3. Turns(el, el.frame, states[el.frame], OutputState(el, "output"))
    BY <2>1, OutputTurns DEF Outputs
  <2> QED BY <1>2, <2>1, <2>2, <2>3
<1> QED BY <1>3, <1>4, <1>5, <1>6, <1>7, <1>8 DEF ReadElement

(* What the first use of a frame is cited for is in the sink.              *)
LEMMA FirstUseCited ==
    ASSUME IInv, sink \in Seq(Rejected), NEW el \in ElementSet, ReadElement(el), ~ToolError,
           el.kind \in Outputs, NEW rule,
           Names(FirstUseRejections(el.frame, states[el.frame], Element), rule, {Element})
    PROVE  Names(sink', rule, {Element})
<1> DEFINE f  == el.frame
           c  == ChannelOf(f)
           st == states[f]
           e  == Element
           first == FirstUseRejections(f, st, e)
           grid  == StartGridRejections(f, st, e)
           note  == NoteRejections(f, st, e, NotedAs(el))
           moves == AdvanceRejections(f, el.duration, e, TRUE)
           s     == OutputRejections(el, st, NotedAs(el))
<1>1. PICK kind \in Outputs : Reads(el, kind)
  BY DEF ReadElement, Barrier, ShiftPhase, SetFrequency, Delay, Capture, Play, Reads, Outputs
<1>2. /\ f \in Frames /\ st \in FrameRecord /\ e \in Nat /\ Bound /\ el.kind = kind
      /\ el.duration \in Int /\ c \in DOMAIN Device /\ c \in DOMAIN Channels
  BY <1>1, Reading, FrameChannel DEF Outputs, Bound
<1>3. first \in Seq(Of(ValueRules, {e})) /\ Names(first, rule, {e})
  BY <1>2, FirstUseOf, ValueOf
<1>4. grid \in Seq(Of({"schedule_grid"}, {e}))
  BY <1>2, StartGridNames
<1>5. note \in Seq(Flagged)
  BY <1>2, NoteNames
<1>6. moves \in Seq(Of(DurationRules, {e}))
  BY <1>2, AdvanceNames
<1>7. s = first \o grid \o note \o moves
  BY DEF OutputRejections
<1> HIDE DEF first, grid, note, moves, e, s
<1>8. /\ first \in Seq(Flagged) /\ grid \in Seq(Flagged) /\ moves \in Seq(Flagged)
  BY <1>2, <1>3, <1>4, <1>6, OfIsFlagged DEF ElementRules, TimeIds
<1>9. first \o grid \o note \in Seq(Flagged) /\ Names(first \o grid \o note, rule, {e})
  BY <1>3, <1>5, <1>8, NamesWithin, ConcatProperties
<1> DEFINE upTo == first \o grid \o note
<1>10. upTo \in Seq(Flagged) /\ Names(upTo, rule, {e})
  BY <1>9
<1> HIDE DEF upTo
<1>11. s \in Seq(Flagged) /\ Names(s, rule, {e})
  <2>1. upTo \o moves \in Seq(Flagged) /\ Names(upTo \o moves, rule, {e})
    BY <1>8, <1>10, NamesConcat, ConcatProperties
  <2> QED BY <1>7, <2>1 DEF upTo
<1>12. CASE Capture(el)
  <2> DEFINE length == CaptureLengthRejections(f, st, DurationUnits(f, el.duration), e)
  <2>1. Reads(el, "capture") /\ sink' = sink \o OutputRejections(el, st, "capture") \o length
    BY <1>12 DEF Capture, e
  <2>2. NotedAs(el) = "capture"
    BY <2>1 DEF NotedAs, Reads
  <2>3. length \in Seq(Flagged)
    <3>1. length \in Seq(Of({"capture_length_uniform"}, {e}))
      BY CaptureLengthNames
    <3> HIDE DEF length
    <3> QED BY <1>2, <3>1, OfIsFlagged DEF ElementRules, TimeIds
  <2>4. sink' = sink \o s \o length
    BY <2>1, <2>2 DEF s
  <2> HIDE DEF length
  <2> QED BY <1>11, <2>3, <2>4, NamesWithin, FlaggedRejected DEF e
<1>13. CASE PlayWaveform(el) /\ Reads(el, "play")
  <2> DEFINE t == WaveformRejections(f, el.waveform, DurationUnits(f, el.duration), e)
  <2>1. NotedAs(el) = "output"
    BY <1>13 DEF NotedAs, Reads
  <2>2. sink' = sink \o s \o t
    BY <1>13, <2>1 DEF PlayWaveform, s, e
  <2>3. t \in Seq(Flagged)
    BY <1>2, WaveformOf, OthersSilent
  <2> HIDE DEF t
  <2> QED BY <1>11, <2>2, <2>3, NamesWithin, FlaggedRejected DEF e
<1>14. CASE PlayTones(el) /\ Reads(el, "play")
  <2> DEFINE table == IF ChecksTones(c) THEN ToneRejections(c, e) ELSE << >>
             mask == MaskRejections(c, el.mask, e)
  <2>1. NotedAs(el) = "output" /\ el.kind = "play" /\ HasTones(c)
    BY <1>14 DEF NotedAs, Reads, PlayTones
  <2>2. sink' = sink \o s \o table \o mask
    BY <1>14, <2>1 DEF PlayTones, s, e
  <2>3. el.mask \in Seq(Nat)
    BY <2>1, ElementAssumption
  <2>4. table \in Seq(Of(ValueRules, {e})) /\ mask \in Seq(Of(ValueRules, {e}))
    BY <1>2, <2>3, ToneOf, MaskOf, ValueOf, EmptySeq
  <2> HIDE DEF table, mask
  <2>5. table \in Seq(Rejected) /\ mask \in Seq(Rejected) /\ s \in Seq(Rejected)
    BY <1>2, <1>11, <2>4, OthersSilent, FlaggedRejected
  <2> DEFINE more == sink \o s
  <2>6. more \in Seq(Rejected) /\ Names(more, rule, {e})
    BY <1>11, <2>5, NamesConcat, ConcatProperties
  <2>7. sink' = more \o table \o mask
    BY <2>2
  <2> HIDE DEF more
  <2> QED BY <2>5, <2>6, <2>7, NamesWithin DEF e
<1>15. Capture(el) \/ ((PlayWaveform(el) \/ PlayTones(el)) /\ Reads(el, "play"))
  BY <1>1 DEF ReadElement, Barrier, ShiftPhase, SetFrequency, Delay, Capture, Play, Reads, Outputs
<1> QED BY <1>12, <1>13, <1>14, <1>15

(* A phase is cited at the shift that leaves its step, and at the first    *)
(* output of a frame that has left it.                                     *)
LEMMA PhaseCited ==
    ASSUME IInv, sink \in Seq(Rejected), NEW el \in ElementSet, ReadElement(el), ~ToolError
    PROVE  /\ el.kind = "shift_phase"
                  => /\ el.phase \in Int /\ ~PhaseRefused(ChannelOf(el.frame))
                     /\ PhaseBreaks(ChannelOf(el.frame), el.phase)
                            => Names(sink', "phase_resolution", {Element})
           /\ (/\ el.kind \in Outputs /\ ~HasTones(ChannelOf(el.frame))
               /\ ~states[el.frame].phaseChecked
               /\ PhaseBreaks(ChannelOf(el.frame), states[el.frame].phase))
                  => Names(sink', "phase_resolution", {Element})
<1> DEFINE f  == el.frame
           c  == ChannelOf(f)
           st == states[f]
           e  == Element
           rule == "phase_resolution"
<1>1. ASSUME el.kind = "shift_phase"
      PROVE  /\ el.phase \in Int /\ ~PhaseRefused(c)
             /\ PhaseBreaks(c, el.phase) => Names(sink', rule, {e})
  <2> DEFINE note   == NoteRejections(f, Counted(st), e, "phase")
             looked == PhaseRejections(c, el.phase, e)
  <2>1. /\ Reads(el, "shift_phase") /\ ~ShiftRefused(el)
        /\ sink' = sink \o note \o looked
    BY <1>1 DEF ReadElement, Barrier, ShiftPhase, SetFrequency, Delay, Capture, Play, Reads
  <2>2. /\ f \in Frames /\ Element \in Nat /\ Counted(st) \in FrameRecord
        /\ c \in DOMAIN Device /\ el.phase \in Int
    BY <2>1, Reading, FrameChannel, ElementAssumption
  <2>3. note \in Seq(Flagged)
    BY <2>2, NoteNames
  <2>4. looked \in Seq(Flagged)
    BY <2>2, PhaseOf, ValueOf, OthersSilent
  <2>5. PhaseBreaks(c, el.phase) => Names(looked, rule, {e})
    BY <2>2, PhaseNames
  <2>6. ~PhaseRefused(c)
    BY <2>1 DEF ShiftRefused
  <2> HIDE DEF note, looked, e, c
  <2> QED BY <2>1, <2>2, <2>3, <2>4, <2>5, <2>6, NamesWithin, FlaggedRejected
<1>2. ASSUME el.kind \in Outputs, ~HasTones(c), ~st.phaseChecked, PhaseBreaks(c, st.phase)
      PROVE  Names(sink', rule, {e})
  <2> DEFINE carrier == IF ChecksFrequency(f, st) THEN FrequencyRejections(c, st.frequency, e)
                        ELSE << >>
             turn    == PhaseRejections(c, st.phase, e)
  <2>1. FirstUseRejections(f, st, e) = carrier \o turn
    BY <1>2 DEF FirstUseRejections, ChecksPhase
  <2>2. f \in Frames /\ c \in DOMAIN Device
    <3>1. PICK kind \in Outputs : Reads(el, kind)
      BY <1>2 DEF ReadElement, Barrier, ShiftPhase, SetFrequency, Delay, Capture, Play, Reads, Outputs
    <3> QED BY <3>1, Reading, FrameChannel DEF Outputs
  <2>3. /\ carrier \in Seq(Of(ValueRules, {e})) /\ turn \in Seq(Of(ValueRules, {e}))
        /\ Names(turn, rule, {e})
    BY <1>2, <2>2, FrequencyOf, PhaseOf, ValueOf, PhaseNames, EmptySeq
  <2> HIDE DEF carrier, turn
  <2>4. Names(carrier \o turn, rule, {e})
    BY <2>3, NamesConcat
  <2> QED BY <1>2, <2>1, <2>4, FirstUseCited
<1> QED BY <1>1, <1>2

(* The phase of a frame when element i of the program p is reached.        *)
Shifts(p, f, i) == {k \in Placed(p, f, {"shift_phase"}) : k < i}

PhaseIn(p, f, i) == FrameDefs[f].phase + SumFunction([k \in Shifts(p, f, i) |-> p[k].phase])

(* One more shift turns it by that much.                                   *)
LEMMA PhaseGrows ==
    ASSUME NEW p \in Seq(ElementSet), NEW el \in ElementSet, NEW f \in Frames
    PROVE  LET shifts == el.kind = "shift_phase" /\ el.frame = f
               n      == Len(p) + 1
           IN  /\ \A i \in 1 .. n : PhaseIn(Append(p, el), f, i) = PhaseIn(p, f, i)
               /\ PhaseIn(p, f, n) \in Int
               /\ PhaseIn(Append(p, el), f, n + 1)
                      = IF shifts THEN PhaseIn(p, f, n) + el.phase ELSE PhaseIn(p, f, n)
<1> DEFINE shifts == el.kind = "shift_phase" /\ el.frame = f
           n == Len(p) + 1
           q == Append(p, el)
<1>1. /\ Len(p) \in Nat /\ q[n] = el /\ \A i \in 1 .. Len(p) : q[i] = p[i] /\ p[i] \in ElementSet
  BY OneMore, ElementOfSeq
<1>2. /\ Placed(p, f, {"shift_phase"}) \subseteq 1 .. Len(p)
      /\ Placed(q, f, {"shift_phase"})
             = Placed(p, f, {"shift_phase"}) \cup IF shifts THEN {n} ELSE {}
  BY PlacedGrows
<1>3. FrameDefs[f].phase \in Int
  BY FrameChannel
<1>4. ASSUME NEW k \in Placed(p, f, {"shift_phase"}) PROVE p[k].phase \in Int
  <2>1. p[k] \in ElementSet /\ p[k].kind = "shift_phase"
    BY <1>1, <1>2 DEF Placed
  <2> QED BY <2>1, ElementAssumption
<1>5. shifts => el.phase \in Int
  BY ElementAssumption
<1> HIDE DEF q
<1>6. ASSUME NEW i \in 1 .. n PROVE PhaseIn(q, f, i) = PhaseIn(p, f, i)
  <2>1. Shifts(q, f, i) = Shifts(p, f, i)
    BY <1>1, <1>2 DEF Shifts
  <2>2. \A k \in Shifts(p, f, i) : q[k] = p[k]
    BY <1>1, <1>2 DEF Shifts
  <2>3. [k \in Shifts(q, f, i) |-> q[k].phase] = [k \in Shifts(p, f, i) |-> p[k].phase]
    BY <2>1, <2>2
  <2> QED BY <2>3, Zenon DEF PhaseIn
<1> DEFINE S == Shifts(p, f, n)
           g == [k \in S |-> p[k].phase]
<1>7. S = Placed(p, f, {"shift_phase"}) /\ S \subseteq 1 .. Len(p)
  BY <1>1, <1>2 DEF Shifts
<1>8. IsFiniteSet(S)
  <2>1. IsFiniteSet(1 .. Len(p))
    BY <1>1, FS_Interval
  <2> HIDE DEF S
  <2> QED BY <1>7, <2>1, FS_Subset
<1>9. g \in [S -> Int] /\ n \notin S
  BY <1>1, <1>4, <1>7
<1>10. SumFunction(g) \in Int
  <2>1. SumFunctionOnSet(g, S) \in Int
    <3> HIDE DEF S, g
    <3> QED BY <1>8, <1>9, SumTakes
  <2> QED BY <2>1 DEF SumFunction
<1>11. PhaseIn(p, f, n) = FrameDefs[f].phase + SumFunction(g)
  BY DEF PhaseIn
<1>12. CASE shifts
  <2> DEFINE h == [k \in S \cup {n} |-> q[k].phase]
  <2>1. Shifts(q, f, n + 1) = S \cup {n}
    BY <1>1, <1>2, <1>7, <1>12 DEF Shifts
  <2>2. h \in [S \cup {n} -> Int] /\ (\A k \in S : h[k] = g[k]) /\ h[n] = el.phase
    <3>1. \A k \in S : q[k].phase = p[k].phase /\ p[k].phase \in Int
      BY <1>1, <1>4, <1>7
    <3> HIDE DEF S
    <3> QED BY <1>1, <1>5, <1>12, <3>1
  <2>3. SumFunction(h) = SumFunction(g) + el.phase
    <3>1. SumFunction(h) = SumFunction(g) + h[n]
      <4>1. OneMoreTerm(S, n, g, h)
        <5> HIDE DEF S, g, h, n
        <5> QED BY <1>8, <1>9, <2>2 DEF OneMoreTerm
      <4> HIDE DEF S, g, h, n
      <4> QED BY <4>1, SumGrows
    <3> HIDE DEF g, h
    <3> QED BY <2>2, <3>1
  <2>4. PhaseIn(q, f, n + 1) = FrameDefs[f].phase + SumFunction(h)
    <3>1. [k \in Shifts(q, f, n + 1) |-> q[k].phase] = h
      BY <2>1
    <3> HIDE DEF h
    <3> QED BY <3>1, Zenon DEF PhaseIn
  <2> HIDE DEF g, h, S
  <2>5. PhaseIn(q, f, n + 1) = PhaseIn(p, f, n) + el.phase
    BY <1>3, <1>5, <1>10, <1>11, <1>12, <2>3, <2>4
  <2> QED BY <1>3, <1>6, <1>10, <1>11, <1>12, <2>5 DEF q
<1>13. CASE ~shifts
  <2>1. Shifts(q, f, n + 1) = S /\ \A k \in S : q[k] = p[k]
    BY <1>1, <1>2, <1>7, <1>13 DEF Shifts
  <2>2. [k \in Shifts(q, f, n + 1) |-> q[k].phase] = g
    BY <2>1
  <2> HIDE DEF g, S
  <2>3. PhaseIn(q, f, n + 1) = FrameDefs[f].phase + SumFunction(g)
    BY <2>2, Zenon DEF PhaseIn
  <2> QED BY <1>3, <1>6, <1>10, <1>11, <1>13, <2>3 DEF q
<1> QED BY <1>12, <1>13

(* What a frame knows of its phase, and what the sink k tells of it and of *)
(* its outputs, if the frame was looked at.                                *)
PhaseKnown(p, k, f, v, checked) ==
    /\ v = PhaseIn(p, f, Len(p) + 1)
    /\ checked /\ PhaseBreaks(ChannelOf(f), v)
           => Names(k, "phase_resolution", Placed(p, f, Operations))

PhasedOutputs(p, k, f) ==
    \A i \in Placed(p, f, Outputs) :
        PhaseBreaks(ChannelOf(f), PhaseIn(p, f, i))
            => Names(k, "phase_resolution", Placed(p, f, Operations) \cap (1 .. i))

Shifting(el, f) == el.kind = "shift_phase" /\ el.frame = f

Sounding(el, f) == el.kind \in Outputs /\ el.frame = f

(* The sink k tells, at e, of a shift that is off the step, and of the     *)
(* phase v of a frame that sounds for the first time.                      *)
PhaseMet(el, f, v, checked, k, e) ==
    LET c == ChannelOf(f)
    IN  /\ Shifting(el, f) => el.phase \in Int /\ ~PhaseRefused(c)
        /\ Shifting(el, f) /\ PhaseBreaks(c, el.phase) => Names(k, "phase_resolution", {e})
        /\ Sounding(el, f) /\ ~checked /\ PhaseBreaks(c, v)
               => Names(k, "phase_resolution", {e})

(* Reading el at a frame whose phase is v: a shift off the step is told,   *)
(* and so is the phase of the first output.                                *)
LEMMA PhaseToldGrows ==
    ASSUME NEW p \in Seq(ElementSet), NEW el \in ElementSet, NEW f \in Frames,
           ChannelOf(f) \in DOMAIN Device,
           NEW k \in Seq(Rejected), NEW s \in Seq(Rejected), NEW v, NEW checked \in BOOLEAN,
           PhaseKnown(p, k, f, v, checked), PhasedOutputs(p, k, f),
           PhaseMet(el, f, v, checked, k \o s, Len(p) + 1)
    PROVE  /\ PhaseKnown(Append(p, el), k \o s, f,
                         IF Shifting(el, f) THEN v + el.phase ELSE v,
                         checked \/ Sounding(el, f))
           /\ PhasedOutputs(Append(p, el), k \o s, f)
<1> DEFINE q == Append(p, el)
           n == Len(p) + 1
           c == ChannelOf(f)
           shifts == Shifting(el, f)
           sounds == Sounding(el, f)
           w == IF shifts THEN v + el.phase ELSE v
           rule == "phase_resolution"
<1>0. /\ shifts <=> el.kind = "shift_phase" /\ el.frame = f
      /\ sounds <=> el.kind \in Outputs /\ el.frame = f
      /\ shifts => el.phase \in Int /\ ~PhaseRefused(c)
      /\ shifts /\ PhaseBreaks(c, el.phase) => Names(k \o s, rule, {n})
      /\ sounds /\ ~checked /\ PhaseBreaks(c, v) => Names(k \o s, rule, {n})
  BY DEF PhaseMet, Shifting, Sounding
<1> HIDE DEF shifts, sounds
<1>1. Len(p) \in Nat /\ Len(q) = n
  BY OneMore
<1>2. /\ Placed(p, f, Operations) \subseteq 1 .. Len(p)
      /\ Placed(q, f, Operations)
             = Placed(p, f, Operations) \cup IF el.kind \in Operations /\ el.frame = f
                                             THEN {n} ELSE {}
      /\ Placed(p, f, Outputs) \subseteq 1 .. Len(p)
      /\ Placed(q, f, Outputs)
             = Placed(p, f, Outputs) \cup IF sounds THEN {n} ELSE {}
  BY <1>0, PlacedGrows
<1>3. /\ \A i \in 1 .. n : PhaseIn(q, f, i) = PhaseIn(p, f, i)
      /\ PhaseIn(p, f, n) \in Int
      /\ PhaseIn(q, f, n + 1) = IF shifts THEN PhaseIn(p, f, n) + el.phase ELSE PhaseIn(p, f, n)
  BY <1>0, PhaseGrows
<1>4. (shifts \/ sounds) => n \in Placed(q, f, Operations)
  BY <1>0, <1>2 DEF Operations
<1> HIDE DEF q
<1>5. v = PhaseIn(p, f, n) /\ v \in Int
  BY <1>3 DEF PhaseKnown
<1>6. w = PhaseIn(q, f, Len(q) + 1)
  BY <1>1, <1>3, <1>5
<1>7. ASSUME Names(k, rule, Placed(p, f, Operations)), NEW i \in Int, i >= Len(p)
      PROVE  Names(k \o s, rule, Placed(q, f, Operations) \cap (1 .. i))
  <2>1. Placed(p, f, Operations) \subseteq Placed(q, f, Operations) \cap (1 .. i)
    BY <1>1, <1>2, <1>7
  <2> QED BY <1>7, <2>1, NamesWiden
<1>8. ASSUME shifts \/ sounds, Names(k \o s, rule, {n})
      PROVE  Names(k \o s, rule, Placed(q, f, Operations) \cap (1 .. n))
  <2>1. n \in Placed(q, f, Operations) \cap (1 .. n)
    BY <1>1, <1>4, <1>8
  <2> QED BY <1>8, <2>1 DEF Names
<1>9. n \in Int /\ n >= Len(p)
  BY <1>1
<1>10. ASSUME checked \/ sounds, PhaseBreaks(c, w)
       PROVE  Names(k \o s, rule, Placed(q, f, Operations) \cap (1 .. n))
  <2>1. CASE PhaseBreaks(c, v)
    <3>1. CASE checked
      BY <1>7, <1>9, <2>1, <3>1 DEF PhaseKnown
    <3>2. CASE ~checked
      BY <1>0, <1>8, <1>10, <2>1, <3>2
    <3> QED BY <3>1, <3>2
  <2>2. CASE ~PhaseBreaks(c, v)
    <3>1. shifts
      BY <1>10, <2>2
    <3>2. PhaseBreaks(c, el.phase)
      BY <1>0, <1>5, <1>10, <2>2, <3>1, ShiftBreaks
    <3> QED BY <1>0, <1>8, <3>1, <3>2
  <2> QED BY <2>1, <2>2
<1>11. PhaseKnown(q, k \o s, f, w, checked \/ sounds)
  <2>1. ASSUME checked \/ sounds, PhaseBreaks(c, w)
        PROVE  Names(k \o s, rule, Placed(q, f, Operations))
    BY <1>10, <2>1 DEF Names
  <2> QED BY <1>6, <2>1 DEF PhaseKnown
<1>12. ASSUME NEW i \in Placed(q, f, Outputs), PhaseBreaks(c, PhaseIn(q, f, i))
       PROVE  Names(k \o s, rule, Placed(q, f, Operations) \cap (1 .. i))
  <2>1. CASE i \in Placed(p, f, Outputs)
    <3>1. i \in 1 .. n /\ PhaseBreaks(c, PhaseIn(p, f, i))
      BY <1>1, <1>2, <1>3, <1>12, <2>1
    <3>2. Names(k, rule, Placed(p, f, Operations) \cap (1 .. i))
      BY <2>1, <3>1 DEF PhasedOutputs
    <3>3. Placed(p, f, Operations) \cap (1 .. i) \subseteq Placed(q, f, Operations) \cap (1 .. i)
      BY <1>2
    <3> QED BY <3>2, <3>3, NamesWiden
  <2>2. CASE i = n /\ sounds
    <3>1. ~shifts
      BY <1>0, <2>2 DEF Outputs
    <3>2. PhaseIn(q, f, i) = w
      BY <1>1, <1>3, <1>5, <2>2, <3>1
    <3> QED BY <1>10, <1>12, <2>2, <3>2
  <2> QED BY <1>2, <2>1, <2>2
<1> QED BY <1>11, <1>12 DEF PhasedOutputs, q, shifts, sounds

(* No other step turns a frame.                                            *)
LEMMA OtherKeepsPhase ==
    ASSUME IInv, [Next]_vars, ~\E el \in ElementSet : ReadElement(el) /\ ~ToolError
    PROVE  \A f \in Frames : SamePhase(states[f], states'[f])
<1>1. ASSUME states' = states PROVE \A f \in Frames : SamePhase(states[f], states'[f])
  BY <1>1 DEF SamePhase
<1>2. CASE ToolError
  BY <1>1, <1>2 DEF ToolError, progVars
<1>3. CASE CloseSlots /\ ~ToolError
  <2>1. states' = [f \in Frames |-> IF SettlesAtEnd(f)
                                    THEN [states[f] EXCEPT !.openCapture = Absent]
                                    ELSE states[f]]
    BY <1>3 DEF CloseSlots
  <2>2. ASSUME NEW f \in Frames PROVE SamePhase(states[f], states'[f])
    <3>1. states[f] \in FrameRecord
      BY DEF IInv, Typed
    <3>2. SamePhase(states[f], [states[f] EXCEPT !.openCapture = Absent])
      BY <3>1 DEF FrameRecord, SamePhase
    <3> QED BY <2>1, <3>2 DEF SamePhase
  <2> QED BY <2>2
<1>4. CASE \/ Bind \/ EndOfProgram \/ CloseSpacing \/ SkipBudget \/ CountBudget \/ Finish
           \/ Idle \/ UNCHANGED vars
  BY <1>1, <1>2, <1>4
     DEF Bind, EndOfProgram, CloseSpacing, SkipBudget, CountBudget, Finish, Idle, vars, progVars,
         ToolError
<1> QED BY <1>2, <1>3, <1>4 DEF Next

(* The phases of the frames that can be shifted.                           *)
PhasesTold ==
    \A f \in Frames : ~HasTones(ChannelOf(f)) =>
        /\ PhaseKnown(prog, sink, f, states[f].phase, states[f].phaseChecked)
        /\ PhasedOutputs(prog, sink, f)

PInv == HInv /\ PhasesTold

(* An element keeps them told.                                             *)
LEMMA ElementKeepsPhases ==
    ASSUME PInv, NEW el \in ElementSet, ReadElement(el), ~ToolError
    PROVE  PhasesTold'
<1>1. /\ IInv /\ sink \in Seq(Rejected) /\ prog \in Seq(ElementSet) /\ Bound
      /\ prog' = Append(prog, el)
      /\ \A f \in Frames : states[f] \in FrameRecord
  BY ElementMoves DEF PInv, HInv, IInv, Typed
<1>2. PICK s \in Seq(Rejected) : sink' = sink \o s
  BY <1>1, ElementAdds DEF Adds
<1> SUFFICES ASSUME NEW f \in Frames, ~HasTones(ChannelOf(f))
             PROVE  /\ PhaseKnown(prog', sink', f, states'[f].phase, states'[f].phaseChecked)
                    /\ PhasedOutputs(prog', sink', f)
  BY DEF PhasesTold
<1> DEFINE st == states[f]
           v == st.phase
           checked == st.phaseChecked
<1>3. /\ PhaseKnown(prog, sink, f, v, checked) /\ PhasedOutputs(prog, sink, f)
      /\ checked \in BOOLEAN /\ ChannelOf(f) \in DOMAIN Device
  BY <1>1, FrameChannel DEF PInv, PhasesTold, FrameRecord, Bound
<1>4. Turns(el, f, states[f], states'[f])
  BY <1>1, ElementTurns
<1>5. /\ states'[f].phase = IF Shifting(el, f) THEN v + el.phase ELSE v
      /\ states'[f].phaseChecked <=> checked \/ Sounding(el, f)
  BY <1>4 DEF Turns, Shifting, Sounding
<1>6. PhaseMet(el, f, v, checked, sink \o s, Len(prog) + 1)
  BY <1>1, <1>2, PhaseCited DEF Element, PhaseMet, Shifting, Sounding
<1>7. states'[f].phaseChecked = (checked \/ Sounding(el, f))
  <2>1. IInv'
    BY <1>1, StepIInv DEF Next
  <2>2. states'[f].phaseChecked \in BOOLEAN
    BY <2>1 DEF IInv, Typed, FrameRecord
  <2> QED BY <1>3, <1>5, <2>2
<1> HIDE DEF v, checked, st
<1>8. /\ PhaseKnown(Append(prog, el), sink \o s, f,
                    IF Shifting(el, f) THEN v + el.phase ELSE v,
                    checked \/ Sounding(el, f))
      /\ PhasedOutputs(Append(prog, el), sink \o s, f)
  BY <1>1, <1>2, <1>3, <1>6, PhaseToldGrows
<1> QED BY <1>1, <1>2, <1>5, <1>7, <1>8

(* So does every other step.                                               *)
LEMMA OtherKeepsPhases ==
    ASSUME PInv, [Next]_vars, ~\E el \in ElementSet : ReadElement(el) /\ ~ToolError
    PROVE  PhasesTold'
<1>1. /\ prog' = prog /\ sink \in Seq(Rejected)
      /\ \E s \in Seq(Rejected) : sink' = sink \o s
      /\ \A f \in Frames : SamePhase(states[f], states'[f])
  BY OtherSteps, OtherKeepsPhase DEF PInv, HInv
<1>2. ASSUME NEW rule, NEW elements, Names(sink, rule, elements)
      PROVE  Names(sink', rule, elements)
  BY <1>1, <1>2, NamesConcat
<1>3. ASSUME NEW f \in Frames, ~HasTones(ChannelOf(f))
      PROVE  /\ PhaseKnown(prog', sink', f, states'[f].phase, states'[f].phaseChecked)
             /\ PhasedOutputs(prog', sink', f)
  <2>1. /\ PhaseKnown(prog, sink, f, states[f].phase, states[f].phaseChecked)
        /\ PhasedOutputs(prog, sink, f)
    BY <1>3 DEF PInv, PhasesTold
  <2> QED BY <1>1, <1>2, <2>1 DEF PhaseKnown, PhasedOutputs, SamePhase
<1> QED BY <1>3 DEF PhasesTold

(* They are told before the program is read.                               *)
LEMMA InitPhases ==
    ASSUME HInit PROVE PhasesTold
<1>1. /\ prog = << >> /\ states = [f \in Frames |-> InitialState(f)]
  BY DEF HInit, Init
<1>2. Len(prog) = 0 /\ \A f, kinds : Placed(prog, f, kinds) = {}
  BY <1>1 DEF Placed
<1>3. ASSUME NEW f \in Frames
      PROVE  /\ PhaseKnown(prog, sink, f, states[f].phase, states[f].phaseChecked)
             /\ PhasedOutputs(prog, sink, f)
  <2>1. states[f].phase = FrameDefs[f].phase /\ states[f].phaseChecked = FALSE
    BY <1>1 DEF InitialState
  <2> DEFINE g == [k \in {} |-> prog[k].phase]
  <2>2. Shifts(prog, f, Len(prog) + 1) = {}
    BY <1>2 DEF Shifts
  <2>3. [k \in Shifts(prog, f, Len(prog) + 1) |-> prog[k].phase] = g
    BY <2>2
  <2>4. PhaseIn(prog, f, Len(prog) + 1) = FrameDefs[f].phase + SumFunction(g)
    <3> HIDE DEF g
    <3> QED BY <2>3, Zenon DEF PhaseIn
  <2>5. SumFunction(g) = 0
    <3>1. DOMAIN g = {}
      OBVIOUS
    <3> HIDE DEF g
    <3>2. SumFunctionOnSet(g, DOMAIN g) = SumFunctionOnSet(g, {})
      BY <3>1, Zenon
    <3> QED BY <3>2, SumEmpty DEF SumFunction
  <2>6. FrameDefs[f].phase \in Int
    BY FrameChannel
  <2> HIDE DEF g
  <2> QED BY <1>2, <2>1, <2>4, <2>5, <2>6 DEF PhaseKnown, PhasedOutputs
<1> QED BY <1>3 DEF PhasesTold

(* No output of a frame whose phase has left its step goes untold: the     *)
(* phase a frame begins with is looked at once, and so is every shift, but *)
(* never what they add up to.                                              *)
THEOREM PhasesTheorem == HSpec => []PhasesChecked
<1>1. HInit => PInv
  BY InitHInv, InitPhases DEF PInv
<1>2. PInv /\ [HNext]_<< vars, before >> => PInv'
  <2> SUFFICES ASSUME PInv, [HNext]_<< vars, before >> PROVE PInv'
    OBVIOUS
  <2>1. HInv' /\ [Next]_vars
    BY StepHInv DEF PInv, HNext
  <2>2. PhasesTold'
    BY <2>1, ElementKeepsPhases, OtherKeepsPhases
  <2> QED BY <2>1, <2>2 DEF PInv
<1>3. ASSUME PInv PROVE PhasesChecked
  <2> SUFFICES ASSUME ProgramRead, NEW f \in Frames, ~HasTones(ChannelOf(f)),
                      NEW i \in On(f, Outputs),
                      PhaseRejections(ChannelOf(f), PhaseAt(f, i), 0) # << >>
               PROVE  Cited("phase_resolution", On(f, Operations) \cap (1 .. i)) # {}
    BY DEF PhasesChecked
  <2>1. ChannelOf(f) \in DOMAIN Device
    BY <1>3, FrameChannel DEF PInv, HInv, IInv, Bound, ProgramRead
  <2>2. \A kinds : On(f, kinds) = Placed(prog, f, kinds)
    BY OnIsPlaced
  <2>3. PhaseAt(f, i) = PhaseIn(prog, f, i)
    BY <2>2 DEF PhaseAt, PhaseIn, ShiftsBefore, Shifts
  <2>4. PhaseBreaks(ChannelOf(f), PhaseIn(prog, f, i))
    BY <2>1, <2>3, PhaseNames
  <2>5. Names(sink, "phase_resolution", Placed(prog, f, Operations) \cap (1 .. i))
    BY <1>3, <2>2, <2>4 DEF PInv, PhasesTold, PhasedOutputs
  <2> QED BY <2>2, <2>5, CitedNames
<1> QED BY <1>1, <1>2, <1>3, PTL DEF HSpec

-----------------------------------------------------------------------------
(* What a report says of values: under these rules only, and of element e. *)
Tells(s, rules, e) ==
    /\ s \in Seq(Rejected)
    /\ \A n \in DOMAIN s : s[n].rule \in ValueRules => s[n].rule \in rules /\ s[n].element = e

(* The rejections of one element under one rule.                           *)
Blame(rule, e) == {r \in Rejected : r.rule = rule /\ r.element = e}

(* Rejections of some rules at e say nothing of values under others.       *)
LEMMA TellsOf ==
    ASSUME NEW rules \in SUBSET ElementRules, NEW e \in Nat, NEW s \in Seq(Of(rules, {e})),
           NEW some, rules \cap ValueRules \subseteq some
    PROVE  Tells(s, some, e)
<1>1. s \in Seq(Rejected)
  BY OfIsFlagged, FlaggedRejected
<1>2. \A n \in DOMAIN s : s[n] \in Of(rules, {e})
  BY LenProperties, ElementOfSeq
<1> QED BY <1>1, <1>2 DEF Tells, Of

(* Joined reports say what they say.                                       *)
LEMMA TellsConcat ==
    ASSUME NEW rules, NEW e, NEW s, NEW t, Tells(s, rules, e), Tells(t, rules, e)
    PROVE  Tells(s \o t, rules, e)
<1>1. s \in Seq(Rejected) /\ t \in Seq(Rejected)
  BY DEF Tells
<1>2. s \o t \in Seq(Rejected)
  BY <1>1, ConcatProperties
<1>3. \A n \in DOMAIN (s \o t) :
          (\E i \in DOMAIN s : (s \o t)[n] = s[i]) \/ (\E i \in DOMAIN t : (s \o t)[n] = t[i])
  <2>1. /\ DOMAIN s = 1 .. Len(s) /\ DOMAIN t = 1 .. Len(t)
        /\ Len(s) \in Nat /\ Len(t) \in Nat /\ DOMAIN (s \o t) = 1 .. Len(s) + Len(t)
        /\ \A i \in 1 .. Len(s) + Len(t) :
               (s \o t)[i] = IF i <= Len(s) THEN s[i] ELSE t[i - Len(s)]
    BY <1>1, <1>2, ConcatProperties, LenProperties
  <2> SUFFICES ASSUME NEW n \in 1 .. Len(s) + Len(t)
               PROVE  \/ \E i \in DOMAIN s : (s \o t)[n] = s[i]
                      \/ \E i \in DOMAIN t : (s \o t)[n] = t[i]
    BY <2>1
  <2>2. CASE n <= Len(s)
    <3>1. n \in DOMAIN s /\ (s \o t)[n] = s[n]
      BY <2>1, <2>2
    <3> QED BY <3>1
  <2>3. CASE ~(n <= Len(s))
    <3>1. n - Len(s) \in DOMAIN t /\ (s \o t)[n] = t[n - Len(s)]
      BY <2>1, <2>3
    <3> QED BY <3>1
  <2> QED BY <2>2, <2>3
<1> QED BY <1>2, <1>3 DEF Tells

(* Of another rule, or another element, there is none.                     *)
LEMMA TellsNone ==
    ASSUME NEW rules, NEW e, NEW s, Tells(s, rules, e), NEW rule \in ValueRules, NEW i,
           rule \notin rules \/ i # e
    PROVE  Tally(s, Blame(rule, i)) = 0
<1>1. s \in Seq(Rejected) /\ \A n \in DOMAIN s : s[n] \notin Blame(rule, i)
  BY DEF Tells, Blame
<1> QED BY <1>1, TallyNone

(* The two say the same of values, under all rules but some.               *)
AsMuch(s, t, some) ==
    \A rule \in ValueRules \ some : \A i : Tally(s, Blame(rule, i)) = Tally(t, Blame(rule, i))

(* A report before it that says nothing under the others changes nothing.  *)
LEMMA TellsBeside ==
    ASSUME NEW some, NEW e, NEW s, NEW t, Tells(s, some, e), some \subseteq ValueRules,
           Tells(t, ValueRules, e)
    PROVE  /\ Tells(s \o t, ValueRules, e)
           /\ AsMuch(s \o t, t, some)
<1>1. Tells(s, ValueRules, e) /\ s \in Seq(Rejected) /\ t \in Seq(Rejected)
  BY DEF Tells
<1>2. ASSUME NEW rule \in ValueRules \ some, NEW i
      PROVE  Tally(s \o t, Blame(rule, i)) = Tally(t, Blame(rule, i))
  <2>1. Tally(s, Blame(rule, i)) = 0 /\ Tally(t, Blame(rule, i)) \in Nat
    BY <1>1, TellsNone, TallyNatural
  <2>2. Tally(s \o t, Blame(rule, i)) = Tally(s, Blame(rule, i)) + Tally(t, Blame(rule, i))
    BY <1>1, TallyConcat
  <2> QED BY <2>1, <2>2
<1> QED BY <1>1, <1>2, TellsConcat DEF AsMuch

(* note_event says nothing of values.                                      *)
LEMMA NoteTells ==
    ASSUME NEW f, NEW st \in FrameRecord, NEW e \in Nat, NEW kind
    PROVE  Tells(NoteRejections(f, st, e, kind), {}, e)
<1> DEFINE slot   == SlotRejections(f, st)
           start  == StartRejections(f, st, e)
           repeat == KindRejections(f, st, e, kind)
           older  == st.openCaptureElement
<1>1. /\ {"capture_slot"} \in SUBSET ElementRules /\ {"start_spacing"} \in SUBSET ElementRules
      /\ RepeatRules \in SUBSET ElementRules
      /\ {"capture_slot"} \cap ValueRules = {} /\ {"start_spacing"} \cap ValueRules = {}
      /\ RepeatRules \cap ValueRules = {}
  BY DEF ElementRules, TimeIds, RepeatRules, ValueRules, PlainRules
<1>2. older \in Nat
  BY DEF FrameRecord
<1>3. /\ slot \in Seq(Of({"capture_slot"}, {older})) /\ start \in Seq(Of({"start_spacing"}, {e}))
      /\ repeat \in Seq(Of(RepeatRules, {e}))
  BY SlotNames, StartNames, KindNames
<1>4. NoteRejections(f, st, e, kind) = slot \o start \o repeat
  BY DEF NoteRejections
<1> HIDE DEF slot, start, repeat, older
<1>5. Tells(slot, {}, older) /\ Tells(start, {}, e) /\ Tells(repeat, {}, e)
  BY <1>1, <1>2, <1>3, TellsOf
<1>6. Tells(slot, {}, e)
  BY <1>5 DEF Tells
<1> QED BY <1>4, <1>5, <1>6, TellsConcat

(* An output says of values what its first use does, and nothing on a      *)
(* channel with a tone table.                                              *)
LEMMA OutputTells ==
    ASSUME IInv, NEW el \in ElementSet, NEW kind \in Outputs, Reads(el, kind), NEW noted
    PROVE  LET s == OutputRejections(el, states[el.frame], noted)
           IN  /\ Tells(s, PlainRules, Element)
               /\ HasTones(ChannelOf(el.frame)) => Tells(s, {}, Element)
<1> DEFINE f  == el.frame
           st == states[f]
           e  == Element
           first == FirstUseRejections(f, st, e)
           grid  == StartGridRejections(f, st, e)
           note  == NoteRejections(f, st, e, noted)
           moves == AdvanceRejections(f, el.duration, e, TRUE)
<1>1. /\ f \in Frames /\ st \in FrameRecord /\ e \in Nat /\ Bound /\ el.duration \in Int
  BY Reading DEF Outputs, Bound
<1>2. /\ PlainRules \in SUBSET ElementRules /\ PlainRules \cap ValueRules \subseteq PlainRules
      /\ {"schedule_grid"} \in SUBSET ElementRules /\ DurationRules \in SUBSET ElementRules
      /\ {"schedule_grid"} \cap ValueRules = {} /\ DurationRules \cap ValueRules = {}
  BY DEF ElementRules, TimeIds, ValueRules, PlainRules, DurationRules
<1>3. /\ first \in Seq(Of(PlainRules, {e})) /\ grid \in Seq(Of({"schedule_grid"}, {e}))
      /\ moves \in Seq(Of(DurationRules, {e}))
  BY <1>1, FirstUseOf, StartGridNames, AdvanceNames
<1>4. OutputRejections(el, st, noted) = first \o grid \o note \o moves
  BY DEF OutputRejections
<1>5. Tells(note, {}, e)
  BY <1>1, NoteTells
<1>6. HasTones(ChannelOf(f)) => first = << >>
  BY DEF FirstUseRejections, ChecksFrequency, ChecksPhase
<1> HIDE DEF first, grid, note, moves, e
<1>7. Tells(first, PlainRules, e) /\ Tells(grid, {}, e) /\ Tells(moves, {}, e)
  BY <1>1, <1>2, <1>3, TellsOf
<1>8. \A s : Tells(s, {}, e) => Tells(s, PlainRules, e)
  BY DEF Tells
<1>9. Tells(first \o grid \o note \o moves, PlainRules, e)
  BY <1>5, <1>7, <1>8, TellsConcat
<1>10. HasTones(ChannelOf(f)) => Tells(first \o grid \o note \o moves, {}, e)
  <2> SUFFICES ASSUME HasTones(ChannelOf(f)) PROVE Tells(first \o grid \o note \o moves, {}, e)
    OBVIOUS
  <2>1. Tells(first, {}, e)
    BY <1>6, EmptySeq DEF Tells
  <2> QED BY <1>5, <1>7, <2>1, TellsConcat
<1> QED BY <1>4, <1>9, <1>10 DEF e

(* What a play adds under the value rules.                                 *)
TableTold(el) ==
    LET c == ChannelOf(el.frame)
    IN  IF ChecksTones(c) THEN ToneRejections(c, Element) ELSE << >>

MaskTold(el) == MaskRejections(ChannelOf(el.frame), el.mask, Element)

Sent(el, s) ==
    /\ Tells(s, ValueRules, Element)
    /\ el.kind = "play" /\ HasTones(ChannelOf(el.frame))
          => \A rule \in ValueRules :
                Tally(s, Blame(rule, Element))
                    = Tally(TableTold(el), Blame(rule, Element))
                          + Tally(MaskTold(el), Blame(rule, Element))
    /\ el.kind = "play" /\ ~HasTones(ChannelOf(el.frame))
          => Tally(s, Blame("envelope_memory", Element))
                 = Tally(MemoryRejections(el.frame, el.waveform, Element),
                         Blame("envelope_memory", Element))

(* Three parts of a report are joined in either order. *)
LEMMA JoinedInParts ==
    ASSUME NEW k \in Seq(Rejected), NEW s \in Seq(Rejected), NEW t \in Seq(Rejected)
    PROVE  k \o s \o t = k \o (s \o t)
  BY ConcatAssociative

(* A play of tones. *)
LEMMA TonesSent ==
    ASSUME IInv, sink \in Seq(Rejected), NEW el \in ElementSet, Reads(el, "play"),
           PlayTones(el), ~ToolError
    PROVE  \E s : Sent(el, s) /\ sink' = sink \o s
<1> DEFINE c == ChannelOf(el.frame)
           e == Element
           out   == OutputRejections(el, states[el.frame], "output")
           table == TableTold(el)
           mask  == MaskTold(el)
           s == out \o (table \o mask)
<1>1. /\ HasTones(c) /\ sink' = sink \o out \o table \o mask /\ el.kind = "play"
  BY DEF PlayTones, Reads, TableTold, MaskTold
<1>2. /\ el.frame \in Frames /\ c \in DOMAIN Channels /\ Bound /\ e \in Nat
      /\ el.mask \in Seq(Nat)
  BY <1>1, Reading, FrameChannel, ElementAssumption DEF Bound
<1>3. Tells(out, {}, e)
  BY <1>1, OutputTells DEF Outputs
<1>4. PlainRules \in SUBSET ElementRules /\ {"mux_tone_mask"} \in SUBSET ElementRules
      /\ PlainRules \subseteq ValueRules /\ {"mux_tone_mask"} \subseteq ValueRules
  BY DEF ElementRules, ValueRules
<1>5. Tells(table, ValueRules, e)
  <2>1. table \in Seq(Of(PlainRules, {e}))
    BY <1>2, ToneOf, EmptySeq DEF TableTold
  <2> HIDE DEF table, e
  <2> QED BY <1>2, <1>4, <2>1, TellsOf
<1>6. Tells(mask, ValueRules, e)
  <2>1. mask \in Seq(Of({"mux_tone_mask"}, {e}))
    BY <1>2, MaskOf DEF MaskTold
  <2> HIDE DEF mask, e
  <2> QED BY <1>2, <1>4, <2>1, TellsOf
<1> HIDE DEF out, table, mask, e
<1>7. out \in Seq(Rejected) /\ table \in Seq(Rejected) /\ mask \in Seq(Rejected)
  BY <1>3, <1>5, <1>6 DEF Tells
<1>8. sink' = sink \o s
  <2>1. (sink \o out) \in Seq(Rejected) /\ (table \o mask) \in Seq(Rejected)
    BY <1>7, ConcatProperties
  <2>2. (sink \o out) \o table \o mask = (sink \o out) \o (table \o mask)
    BY <1>7, <2>1, JoinedInParts
  <2>3. sink \o out \o (table \o mask) = sink \o (out \o (table \o mask))
    BY <1>7, <2>1, JoinedInParts
  <2> QED BY <1>1, <2>2, <2>3
<1>9. Tells(table \o mask, ValueRules, e)
  BY <1>5, <1>6, TellsConcat
<1>10. Tells(s, ValueRules, e)
  <2>1. Tells(out, ValueRules, e)
    BY <1>3 DEF Tells
  <2> QED BY <1>9, <2>1, TellsConcat
<1>11. ASSUME NEW rule \in ValueRules
       PROVE  Tally(s, Blame(rule, e)) = Tally(table, Blame(rule, e)) + Tally(mask, Blame(rule, e))
  <2>1. Tally(s, Blame(rule, e)) = Tally(table \o mask, Blame(rule, e))
    <3>1. AsMuch(out \o (table \o mask), table \o mask, {})
      BY <1>3, <1>9, TellsBeside
    <3> QED BY <3>1 DEF AsMuch
  <2>2. Tally(table \o mask, Blame(rule, e)) = Tally(table, Blame(rule, e)) + Tally(mask, Blame(rule, e))
    BY <1>7, TallyConcat
  <2> QED BY <2>1, <2>2
<1>12. Sent(el, s)
  BY <1>1, <1>10, <1>11 DEF Sent, table, mask, e
<1> QED BY <1>8, <1>12

(* A play of a waveform. *)
LEMMA WaveformSent ==
    ASSUME IInv, sink \in Seq(Rejected), NEW el \in ElementSet, Reads(el, "play"),
           PlayWaveform(el), ~ToolError
    PROVE  \E s : Sent(el, s) /\ sink' = sink \o s
<1> DEFINE f == el.frame
           w == el.waveform
           e == Element
           rule == "envelope_memory"
           units == DurationUnits(f, el.duration)
           out   == OutputRejections(el, states[f], "output")
           wave  == WaveformRejections(f, w, units, e)
           memory == MemoryRejections(f, w, e)
           s == out \o wave
<1>1. /\ ~HasTones(ChannelOf(f)) /\ sink' = sink \o out \o wave /\ el.kind = "play"
  BY DEF PlayWaveform, Reads
<1>2. /\ f \in Frames /\ ChannelOf(f) \in DOMAIN Device /\ Bound /\ e \in Nat
  BY <1>1, Reading, FrameChannel DEF Bound
<1>3. Tells(out, PlainRules, e)
  BY <1>1, OutputTells DEF Outputs
<1>4. /\ PlainRules \in SUBSET ElementRules /\ {rule} \in SUBSET ElementRules
      /\ PlainRules \subseteq ValueRules /\ {rule} \subseteq ValueRules /\ rule \notin PlainRules
  BY DEF ElementRules, ValueRules, PlainRules
<1>5. Tells(memory, ValueRules, e)
  <2>1. memory \in Seq(Of({rule}, {e}))
    <3> DEFINE full == Fatal(rule, e)
    <3>1. full \in Of({rule}, {e}) /\ << >> \in Seq(Of({rule}, {e}))
      BY RejectionTypes, EmptySeq DEF Severities, Repairs
    <3>2. memory = << >> \/ \E condition : memory = When(condition, full)
      BY DEF MemoryRejections
    <3> HIDE DEF full, memory
    <3>3. \A condition : When(condition, full) \in Seq(Of({rule}, {e}))
      BY <3>1, OneRejection
    <3> QED BY <3>1, <3>2, <3>3
  <2> HIDE DEF memory, e, rule
  <2> QED BY <1>2, <1>4, <2>1, TellsOf
<1>6. Tells(wave, ValueRules, e) /\ Tally(wave, Blame(rule, e)) = Tally(memory, Blame(rule, e))
  <2>1. CASE IsSampled(w)
    <3> DEFINE envelope == EnvelopeRejections(ChannelOf(f), w, units, e)
    <3>1. wave = envelope \o memory
      BY <2>1 DEF WaveformRejections
    <3>2. envelope \in Seq(Of(PlainRules, {e}))
      BY <1>2, EnvelopeOf
    <3> HIDE DEF envelope, memory, e, rule, wave
    <3>3. Tells(envelope, PlainRules, e)
      BY <1>2, <1>4, <3>2, TellsOf
    <3>4. /\ Tells(envelope \o memory, ValueRules, e)
          /\ AsMuch(envelope \o memory, memory, PlainRules)
      BY <1>4, <1>5, <3>3, TellsBeside
    <3> QED BY <1>4, <3>1, <3>4 DEF AsMuch
  <2>2. CASE ~IsSampled(w)
    <3> DEFINE amplitude == AmplitudeRejections(ChannelOf(f), Waveforms[w].amplitude, e)
    <3>1. wave = amplitude /\ memory = << >>
      BY <2>2 DEF WaveformRejections, MemoryRejections, Loads
    <3>2. amplitude \in Seq(Of(PlainRules, {e}))
      BY <1>2, AmplitudeOf
    <3> HIDE DEF amplitude, memory, e, rule, wave
    <3>3. Tells(amplitude, PlainRules, e)
      BY <1>2, <1>4, <3>2, TellsOf
    <3>4. Tells(amplitude, ValueRules, e)
      BY <1>4, <3>3 DEF Tells
    <3>5. rule \in ValueRules /\ rule \notin PlainRules
      BY <1>4
    <3>6. Tally(amplitude, Blame(rule, e)) = 0
      BY <3>3, <3>5, TellsNone
    <3>7. Tally(memory, Blame(rule, e)) = 0
      BY <3>1, TallyOne
    <3> QED BY <3>1, <3>4, <3>6, <3>7
  <2> QED BY <2>1, <2>2
<1> HIDE DEF out, wave, memory, e, rule
<1>7. Tells(s, ValueRules, e) /\ Tally(s, Blame(rule, e)) = Tally(memory, Blame(rule, e))
  <2>1. /\ Tells(s, ValueRules, e)
        /\ AsMuch(s, wave, PlainRules)
    BY <1>3, <1>4, <1>6, TellsBeside
  <2> QED BY <1>4, <1>6, <2>1 DEF AsMuch
<1>8. sink' = sink \o s
  BY <1>1, <1>3, <1>6, JoinedInParts DEF Tells
<1>9. Sent(el, s)
  BY <1>1, <1>7 DEF Sent, memory, e, rule
<1> QED BY <1>8, <1>9

(* Every other element says of values only what is said of itself. *)
LEMMA QuietSent ==
    ASSUME NEW el, NEW kind, el.kind = kind, kind # "play", NEW s, Tells(s, ValueRules, Element)
    PROVE  Sent(el, s)
  BY DEF Sent

(* An update says what its rule does.                                      *)
LEMMA UpdateSent ==
    ASSUME IInv, sink \in Seq(Rejected), NEW el \in ElementSet,
           ShiftPhase(el) \/ SetFrequency(el), ~ToolError
    PROVE  \E s : Sent(el, s) /\ sink' = sink \o s
<1> DEFINE f == el.frame
           c == ChannelOf(f)
           e == Element
           note(kind) == NoteRejections(f, Counted(states[f]), e, kind)
<1>1. PICK kind, noted, t :
          /\ kind \in {"shift_phase", "set_frequency"} /\ t \in Seq(Of(PlainRules, {e}))
          /\ Reads(el, kind) /\ sink' = sink \o note(noted) \o t
  <2> DEFINE Was(kind, noted, t) ==
                 /\ kind \in {"shift_phase", "set_frequency"} /\ t \in Seq(Of(PlainRules, {e}))
                 /\ Reads(el, kind) /\ sink' = sink \o note(noted) \o t
  <2>1. ASSUME ShiftPhase(el) PROVE Was("shift_phase", "phase", PhaseRejections(c, el.phase, e))
    <3>1. /\ Reads(el, "shift_phase")
          /\ sink' = sink \o note("phase") \o PhaseRejections(c, el.phase, e)
      BY <2>1 DEF ShiftPhase
    <3>2. PhaseRejections(c, el.phase, e) \in Seq(Of(PlainRules, {e}))
      BY <3>1, Reading, FrameChannel, PhaseOf
    <3> QED BY <3>1, <3>2
  <2>2. ASSUME SetFrequency(el)
        PROVE  Was("set_frequency", "frequency", FrequencyRejections(c, el.frequency, e))
    <3>1. /\ Reads(el, "set_frequency")
          /\ sink' = sink \o note("frequency") \o FrequencyRejections(c, el.frequency, e)
      BY <2>2 DEF SetFrequency
    <3>2. FrequencyRejections(c, el.frequency, e) \in Seq(Of(PlainRules, {e}))
      BY <3>1, Reading, FrameChannel, FrequencyOf
    <3> QED BY <3>1, <3>2
  <2>3. \E kind, noted, t : Was(kind, noted, t)
    <3> HIDE DEF Was
    <3> QED BY <2>1, <2>2
  <2> QED BY <2>3
<1>2. Counted(states[f]) \in FrameRecord /\ e \in Nat /\ el.kind = kind
  BY <1>1, Reading
<1>3. Tells(note(noted), {}, e)
  BY <1>2, NoteTells
<1>4. PlainRules \in SUBSET ElementRules /\ PlainRules \cap ValueRules \subseteq ValueRules
  BY DEF ElementRules, ValueRules
<1> DEFINE n == note(noted)
           s == n \o t
<1>5. /\ sink' = sink \o n \o t /\ Tells(n, {}, e)
  BY <1>1, <1>3
<1> HIDE DEF n
<1>6. Tells(t, ValueRules, e) /\ Tells(n, ValueRules, e)
  <2>1. Tells(t, ValueRules, e)
    <3> HIDE DEF e
    <3> QED BY <1>1, <1>2, <1>4, TellsOf
  <2> QED BY <1>5, <2>1 DEF Tells
<1>7. Tells(s, ValueRules, e)
  BY <1>6, TellsConcat
<1>8. sink' = sink \o s
  BY <1>5, <1>6, JoinedInParts DEF Tells
<1> HIDE DEF s
<1>9. Sent(el, s)
  BY <1>1, <1>2, <1>7, QuietSent
<1> QED BY <1>8, <1>9

(* A capture says what every output does, and its length.                  *)
LEMMA CaptureSent ==
    ASSUME IInv, sink \in Seq(Rejected), NEW el \in ElementSet, Capture(el), ~ToolError
    PROVE  \E s : Sent(el, s) /\ sink' = sink \o s
<1> DEFINE f == el.frame
           e == Element
           out == OutputRejections(el, states[f], "capture")
           odd == CaptureLengthRejections(f, states[f], DurationUnits(f, el.duration), e)
           s   == out \o odd
<1>1. Reads(el, "capture") /\ sink' = sink \o out \o odd
  BY DEF Capture
<1>2. e \in Nat /\ el.kind = "capture"
  BY <1>1, Reading
<1>3. Tells(out, PlainRules, e)
  BY <1>1, OutputTells DEF Outputs
<1>4. odd \in Seq(Of({"capture_length_uniform"}, {e}))
  BY CaptureLengthNames
<1> HIDE DEF out, odd, e
<1>5. /\ {"capture_length_uniform"} \in SUBSET ElementRules
      /\ {"capture_length_uniform"} \cap ValueRules \subseteq ValueRules
      /\ PlainRules \subseteq ValueRules
  BY DEF ElementRules, TimeIds, ValueRules
<1>6. Tells(odd, ValueRules, e)
  BY <1>2, <1>4, <1>5, TellsOf
<1>7. Tells(out, ValueRules, e)
  BY <1>3, <1>5 DEF Tells
<1>8. Tells(s, ValueRules, e)
  BY <1>6, <1>7, TellsConcat
<1>9. sink' = sink \o s
  BY <1>1, <1>6, <1>7, JoinedInParts DEF Tells
<1> HIDE DEF s
<1>10. Sent(el, s)
  BY <1>2, <1>8, QuietSent DEF e
<1> QED BY <1>9, <1>10

(* Every element says of values what Sent says.                            *)
LEMMA ElementSent ==
    ASSUME IInv, sink \in Seq(Rejected), NEW el \in ElementSet, ReadElement(el), ~ToolError
    PROVE  \E s : Sent(el, s) /\ sink' = sink \o s
<1>1. CASE Barrier(el)
  <2>1. PICK s : Adds(el, s) /\ sink' = sink \o s
    BY <1>1, BarrierAdds
  <2>2. PICK t \in MemberTimes(el) : sink' = sink \o BarrierRejections(el, t)
    BY <1>1 DEF Barrier
  <2> DEFINE r == BarrierRejections(el, t)
  <2>3. el.kind = "barrier" /\ Bound
    BY <1>1 DEF Barrier, Reads, IInv, ChannelsBound, Bound
  <2>4. /\ r \in Seq(Flagged)
        /\ \A rule, elements : Names(r, rule, elements) => rule = "schedule_grid"
    BY <2>3, BarrierReports
  <2>5. "schedule_grid" \notin ValueRules
    BY DEF ValueRules, PlainRules
  <2> HIDE DEF r
  <2>6. \A n \in DOMAIN r : Names(r, r[n].rule, {r[n].element})
    BY DEF Names, ToSet
  <2>7. Tells(r, ValueRules, Element)
    BY <2>4, <2>5, <2>6, FlaggedRejected DEF Tells
  <2> QED BY <2>2, <2>3, <2>7, QuietSent DEF r
<1>2. CASE Delay(el)
  <2> DEFINE r == AdvanceRejections(el.frame, el.duration, Element, FALSE)
             rules == DurationRules \cup {"schedule_grid"}
  <2>1. Reads(el, "delay") /\ sink' = sink \o r
    BY <1>2 DEF Delay
  <2>2. /\ el.kind = "delay" /\ Element \in Nat /\ el.frame \in Frames /\ Bound
        /\ el.duration \in Int
    BY <2>1, Reading DEF Bound
  <2>3. r \in Seq(Of(rules, {Element}))
    BY <2>2, AdvanceNames
  <2>4. rules \in SUBSET ElementRules /\ rules \cap ValueRules \subseteq ValueRules
    BY DEF ElementRules, TimeIds
  <2> HIDE DEF r, rules
  <2>5. Tells(r, ValueRules, Element)
    BY <2>2, <2>3, <2>4, TellsOf
  <2> QED BY <2>1, <2>2, <2>5, QuietSent
<1>3. CASE Play(el)
  BY <1>3, TonesSent, WaveformSent DEF Play
<1> QED BY <1>1, <1>2, <1>3, UpdateSent, CaptureSent DEF ReadElement

(* The plays on channel c of the program p, and the first of them.         *)
PlaysOn(p, c) == {i \in DOMAIN p : p[i].kind = "play" /\ ChannelOf(p[i].frame) = c}

Earliest(i, S) == \A j \in S : i <= j

(* Nothing is said of values ahead of the program.                         *)
Unsaid(p, k) ==
    \A rule \in ValueRules : \A i \in Nat : i > Len(p) => Tally(k, Blame(rule, i)) = 0

(* What play i on channel c was cited for: what its tone table breaks, if  *)
(* it is the first, and what its mask does.                                *)
TableAt(p, c, i) == IF Earliest(i, PlaysOn(p, c)) THEN ToneRejections(c, i) ELSE << >>

TonesAt(p, k, c, i) ==
    \A rule \in ValueRules :
        Tally(k, Blame(rule, i)) = Tally(TableAt(p, c, i), Blame(rule, i))
                                       + Tally(MaskRejections(c, p[i].mask, i), Blame(rule, i))

TonesSaid(p, k) == \A c \in DOMAIN Channels : HasTones(c) => \A i \in PlaysOn(p, c) : TonesAt(p, k, c, i)

(* The channels whose table was looked at are those that sounded.          *)
Looked(p, seen) == \A c \in DOMAIN Channels : HasTones(c) => (c \in seen <=> PlaysOn(p, c) # {})

(* One more element sounds on its channel, if it is a play.                *)
LEMMA PlaysOnGrow ==
    ASSUME NEW p \in Seq(ElementSet), NEW el \in ElementSet, NEW c
    PROVE  LET sounds == el.kind = "play" /\ ChannelOf(el.frame) = c
           IN  /\ PlaysOn(p, c) \subseteq 1 .. Len(p)
               /\ PlaysOn(Append(p, el), c) = PlaysOn(p, c) \cup IF sounds THEN {Len(p) + 1} ELSE {}
<1>1. /\ Len(p) \in Nat /\ DOMAIN p = 1 .. Len(p)
      /\ DOMAIN Append(p, el) = 1 .. Len(p) + 1 /\ Append(p, el)[Len(p) + 1] = el
      /\ \A i \in 1 .. Len(p) : Append(p, el)[i] = p[i]
  BY OneMore, LenProperties, AppendProperties
<1>2. 1 .. Len(p) + 1 = (1 .. Len(p)) \cup {Len(p) + 1}
  BY <1>1
<1> QED BY <1>1, <1>2 DEF PlaysOn

(* What is said of element e alone leaves the others what was said.        *)
LEMMA SaidOfOne ==
    ASSUME NEW k \in Seq(Rejected), NEW s, NEW e, Tells(s, ValueRules, e), NEW rule \in ValueRules
    PROVE  /\ \A i : i # e => Tally(k \o s, Blame(rule, i)) = Tally(k, Blame(rule, i))
           /\ Tally(k \o s, Blame(rule, e)) = Tally(k, Blame(rule, e)) + Tally(s, Blame(rule, e))
           /\ Tally(s, Blame(rule, e)) \in Nat
<1>1. s \in Seq(Rejected)
  BY DEF Tells
<1>2. \A R : Tally(k \o s, R) = Tally(k, R) + Tally(s, R)
             /\ Tally(k, R) \in Nat /\ Tally(s, R) \in Nat
  BY <1>1, TallyConcat, TallyNatural
<1>3. \A i : i # e => Tally(s, Blame(rule, i)) = 0
  BY TellsNone
<1>4. ASSUME NEW i, i # e PROVE Tally(k \o s, Blame(rule, i)) = Tally(k, Blame(rule, i))
  <2>1. /\ Tally(k \o s, Blame(rule, i)) = Tally(k, Blame(rule, i)) + Tally(s, Blame(rule, i))
        /\ Tally(k, Blame(rule, i)) \in Nat /\ Tally(s, Blame(rule, i)) = 0
    BY <1>2, <1>3, <1>4
  <2> QED BY <2>1
<1> QED BY <1>2, <1>4

(* Nothing is said ahead of a longer program.                              *)
LEMMA UnsaidGrows ==
    ASSUME NEW p \in Seq(ElementSet), NEW el \in ElementSet, NEW k \in Seq(Rejected), NEW s,
           Tells(s, ValueRules, Len(p) + 1), Unsaid(p, k)
    PROVE  /\ Unsaid(Append(p, el), k \o s)
           /\ \A rule \in ValueRules :
                 Tally(k \o s, Blame(rule, Len(p) + 1)) = Tally(s, Blame(rule, Len(p) + 1))
<1>1. Len(p) \in Nat /\ Len(Append(p, el)) = Len(p) + 1
  BY LenProperties, AppendProperties
<1>2. ASSUME NEW rule \in ValueRules, NEW i \in Nat, i > Len(p) + 1
      PROVE  Tally(k \o s, Blame(rule, i)) = 0
  <2>1. i # Len(p) + 1 /\ i > Len(p)
    BY <1>1, <1>2
  <2>2. Tally(k \o s, Blame(rule, i)) = Tally(k, Blame(rule, i))
    BY <2>1, SaidOfOne
  <2> QED BY <2>1, <2>2 DEF Unsaid
<1>3. ASSUME NEW rule \in ValueRules
      PROVE  Tally(k \o s, Blame(rule, Len(p) + 1)) = Tally(s, Blame(rule, Len(p) + 1))
  <2>1. Len(p) + 1 \in Nat /\ Len(p) + 1 > Len(p)
    BY <1>1
  <2>2. Tally(k, Blame(rule, Len(p) + 1)) = 0
    BY <2>1 DEF Unsaid
  <2>3. /\ Tally(k \o s, Blame(rule, Len(p) + 1))
               = Tally(k, Blame(rule, Len(p) + 1)) + Tally(s, Blame(rule, Len(p) + 1))
        /\ Tally(s, Blame(rule, Len(p) + 1)) \in Nat
    BY SaidOfOne
  <2> QED BY <2>2, <2>3
<1> QED BY <1>1, <1>2, <1>3 DEF Unsaid

(* What is said of the tones of the plays before stays so, and of the new  *)
(* one it is what the play was to say.                                     *)
LEMMA TonesSaidGrow ==
    ASSUME NEW p \in Seq(ElementSet), NEW el \in ElementSet, NEW k \in Seq(Rejected), NEW s,
           Tells(s, ValueRules, Len(p) + 1), Unsaid(p, k), TonesSaid(p, k),
           NEW c \in DOMAIN Channels, HasTones(c),
           el.kind = "play" /\ ChannelOf(el.frame) = c =>
               \A rule \in ValueRules :
                   Tally(s, Blame(rule, Len(p) + 1))
                       = Tally(TableAt(Append(p, el), c, Len(p) + 1), Blame(rule, Len(p) + 1))
                           + Tally(MaskRejections(c, el.mask, Len(p) + 1), Blame(rule, Len(p) + 1))
    PROVE  \A i \in PlaysOn(Append(p, el), c) : TonesAt(Append(p, el), k \o s, c, i)
<1> DEFINE q == Append(p, el)
           n == Len(p) + 1
<1>1. /\ Len(p) \in Nat /\ q[n] = el /\ \A i \in 1 .. Len(p) : q[i] = p[i]
  BY OneMore
<1>2. /\ PlaysOn(p, c) \subseteq 1 .. Len(p)
      /\ PlaysOn(q, c) = PlaysOn(p, c) \cup IF el.kind = "play" /\ ChannelOf(el.frame) = c
                                            THEN {n} ELSE {}
  BY PlaysOnGrow
<1> HIDE DEF q
<1>3. ASSUME NEW i \in PlaysOn(p, c) PROVE TonesAt(q, k \o s, c, i)
  <2>1. TonesAt(p, k, c, i) /\ i \in 1 .. Len(p) /\ i # n /\ q[i] = p[i] /\ i <= n
    BY <1>1, <1>2, <1>3 DEF TonesSaid
  <2>2. Earliest(i, PlaysOn(q, c)) <=> Earliest(i, PlaysOn(p, c))
    BY <1>2, <2>1 DEF Earliest
  <2>3. TableAt(q, c, i) = TableAt(p, c, i)
    BY <2>2 DEF TableAt
  <2>4. \A rule \in ValueRules : Tally(k \o s, Blame(rule, i)) = Tally(k, Blame(rule, i))
    BY <2>1, SaidOfOne
  <2> HIDE DEF n
  <2> QED BY <2>1, <2>3, <2>4 DEF TonesAt
<1>4. ASSUME el.kind = "play", ChannelOf(el.frame) = c PROVE TonesAt(q, k \o s, c, n)
  <2>1. \A rule \in ValueRules : Tally(k \o s, Blame(rule, n)) = Tally(s, Blame(rule, n))
    BY UnsaidGrows
  <2>2. \A rule \in ValueRules :
            Tally(s, Blame(rule, n))
                = Tally(TableAt(q, c, n), Blame(rule, n))
                    + Tally(MaskRejections(c, q[n].mask, n), Blame(rule, n))
    BY <1>1, <1>4 DEF q
  <2> HIDE DEF n
  <2> QED BY <2>1, <2>2 DEF TonesAt
<1> HIDE DEF n
<1>5. \A i \in PlaysOn(q, c) : TonesAt(q, k \o s, c, i)
  BY <1>2, <1>3, <1>4
<1> QED BY <1>5 DEF q

(* The channels whose table was looked at. *)
LEMMA ElementLooks ==
    ASSUME NEW el \in ElementSet, ReadElement(el), ~ToolError
    PROVE  tonesChecked' = IF el.kind = "play" /\ HasTones(ChannelOf(el.frame))
                           THEN tonesChecked \cup {ChannelOf(el.frame)} ELSE tonesChecked
  BY DEF ReadElement, Barrier, ShiftPhase, SetFrequency, Delay, Capture, Play, PlayWaveform,
         PlayTones, Reads, envVars

(* What the sink says of the values of the program, while it is read.      *)
TInv == HInv /\ (phase \in Loop => Unsaid(prog, sink) /\ TonesSaid(prog, sink))
             /\ Looked(prog, tonesChecked)

(* An element keeps it.                                                    *)
LEMMA ElementKeepsTones ==
    ASSUME TInv, NEW el \in ElementSet, ReadElement(el), ~ToolError
    PROVE  Unsaid(prog', sink') /\ TonesSaid(prog', sink') /\ Looked(prog', tonesChecked')
<1> DEFINE n == Len(prog) + 1
<1>1. /\ IInv /\ sink \in Seq(Rejected) /\ prog \in Seq(ElementSet)
      /\ phase = "elements" /\ prog' = Append(prog, el) /\ Element = n
      /\ Looked(prog, tonesChecked)
  BY ElementMoves DEF TInv, HInv, IInv, Typed, Element
<1>2. Unsaid(prog, sink) /\ TonesSaid(prog, sink)
  BY <1>1 DEF TInv, Loop
<1>3. PICK s : Sent(el, s) /\ sink' = sink \o s
  BY <1>1, ElementSent
<1>4. Tells(s, ValueRules, n)
  BY <1>1, <1>3 DEF Sent
<1>5. Unsaid(prog', sink')
  BY <1>1, <1>2, <1>3, <1>4, UnsaidGrows
<1>6. ASSUME NEW c \in DOMAIN Channels, HasTones(c)
      PROVE  /\ \A i \in PlaysOn(prog', c) : TonesAt(prog', sink', c, i)
             /\ c \in tonesChecked' <=> PlaysOn(prog', c) # {}
  <2> DEFINE sounds == el.kind = "play" /\ ChannelOf(el.frame) = c
             q == Append(prog, el)
  <2>1. /\ PlaysOn(prog, c) \subseteq 1 .. Len(prog) /\ Len(prog) \in Nat
        /\ PlaysOn(q, c) = PlaysOn(prog, c) \cup IF sounds THEN {n} ELSE {}
    BY <1>1, PlaysOnGrow, LenProperties
  <2>2. c \in tonesChecked <=> PlaysOn(prog, c) # {}
    BY <1>1, <1>6 DEF Looked
  <2>3. c \in tonesChecked' <=> PlaysOn(q, c) # {}
    BY <1>6, <2>1, <2>2, ElementLooks
  <2>4. ASSUME sounds
        PROVE  \A rule \in ValueRules :
                   Tally(s, Blame(rule, n))
                       = Tally(TableAt(q, c, n), Blame(rule, n))
                             + Tally(MaskRejections(c, el.mask, n), Blame(rule, n))
    <3>1. Earliest(n, PlaysOn(q, c)) <=> PlaysOn(prog, c) = {}
      BY <2>1, <2>4 DEF Earliest
    <3>2. TableTold(el) = TableAt(q, c, n)
      BY <1>1, <2>2, <2>4, <3>1 DEF TableTold, TableAt, ChecksTones
    <3>3. MaskTold(el) = MaskRejections(c, el.mask, n)
      BY <1>1, <2>4 DEF MaskTold
    <3> HIDE DEF n, q
    <3> QED BY <1>1, <1>3, <1>6, <2>4, <3>2, <3>3 DEF Sent
  <2>5. \A i \in PlaysOn(q, c) : TonesAt(q, sink \o s, c, i)
    <3> HIDE DEF sounds
    <3> USE DEF sounds
    <3> QED BY <1>1, <1>2, <1>4, <1>6, <2>4, TonesSaidGrow
  <2> QED BY <1>1, <1>3, <2>3, <2>5
<1> QED BY <1>5, <1>6 DEF TonesSaid, Looked

(* So does every other step.                                               *)
LEMMA OtherKeepsTones ==
    ASSUME TInv, [Next]_vars, ~\E el \in ElementSet : ReadElement(el) /\ ~ToolError
    PROVE  /\ phase' \in Loop => Unsaid(prog', sink') /\ TonesSaid(prog', sink')
           /\ Looked(prog', tonesChecked')
<1>1. prog' = prog /\ (phase' \in Loop => phase \in Loop /\ sink' = sink)
  BY OtherSteps DEF TInv, HInv
<1>2. tonesChecked' = tonesChecked
  BY DEF Next, ToolError, Bind, EndOfProgram, CloseSlots, CloseSpacing, SkipBudget, CountBudget,
         Finish, Idle, vars, envVars
<1> QED BY <1>1, <1>2 DEF TInv

(* It holds before the program is read.                                    *)
LEMMA InitTones ==
    ASSUME HInit PROVE Unsaid(prog, sink) /\ TonesSaid(prog, sink) /\ Looked(prog, tonesChecked)
<1>1. prog = << >> /\ sink = << >> /\ tonesChecked = {}
  BY DEF HInit, Init
<1>2. \A c : PlaysOn(prog, c) = {}
  BY <1>1 DEF PlaysOn
<1>3. \A R : Tally(sink, R) = 0
  BY <1>1, TallyOne
<1> QED BY <1>1, <1>2, <1>3 DEF Unsaid, TonesSaid, Looked

(* A mask's rejections count its strays.                                   *)
LEMMA MaskCounts ==
    ASSUME Bound, NEW c \in DOMAIN Channels, Declared(c, "mux_tone_mask"), NEW e \in Nat,
           NEW mask \in Seq(Nat)
    PROVE  Tally(MaskRejections(c, mask, e), Blame("mux_tone_mask", e))
               = Cardinality({n \in DOMAIN mask : mask[n] + 1 \notin DOMAIN Channels[c].tones})
<1> DEFINE rule == "mux_tone_mask"
           m == Len(mask)
           stray == AsDeclared(c, rule, e)
           ss == [n \in DOMAIN mask |-> When(BeyondTable(c, mask[n]), stray)]
           Q  == {n \in DOMAIN mask : mask[n] + 1 \notin DOMAIN Channels[c].tones}
           R  == Blame(rule, e)
           S  == Of({rule}, {e})
<1>1. /\ m \in Nat /\ DOMAIN mask = 1 .. m /\ \A n \in 1 .. m : mask[n] \in Nat
  BY LenProperties, ElementOfSeq
<1>2. stray \in S /\ S \subseteq Rejected
  <2>1. stray \in S
    BY DeclaredRejection, DeclaredFatal DEF Bound
  <2>2. {rule} \in SUBSET ElementRules
    BY DEF ElementRules, ValueRules
  <2>3. S \subseteq Rejected
    BY <2>2, RulesAreClasses DEF Of, Rejected
  <2> QED BY <2>1, <2>3
<1>3. stray \in R
  BY <1>2 DEF Blame, Of
<1>4. \A n \in 1 .. m : BeyondTable(c, mask[n]) <=> n \in Q
  <2>1. DOMAIN Channels[c].tones = 1 .. Len(Channels[c].tones) /\ Len(Channels[c].tones) \in Nat
    BY ToneAssumption, LenProperties
  <2> QED BY <1>1, <2>1 DEF BeyondTable
<1>5. Parts(ss, m, S)
  <2>1. \A condition : When(condition, stray) \in Seq(S)
    BY <1>2, WhenNames
  <2> HIDE DEF stray, S
  <2> QED BY <1>1, <2>1 DEF Parts
<1>6. HeldAt(ss, R, Q, m)
  <2>1. ASSUME NEW n \in 1 .. m PROVE Tally(ss[n], R) = IF n \in Q THEN 1 ELSE 0
    <3> HIDE DEF R, stray, Q
    <3>1. ss[n] = IF n \in Q THEN << stray >> ELSE << >>
      BY <1>1, <1>4 DEF When
    <3> HIDE DEF ss
    <3> QED BY <1>3, <3>1, TallyOne
  <2> HIDE DEF ss, R, Q
  <2> QED BY <2>1 DEF HeldAt
<1>7. Q \in SUBSET (1 .. m)
  BY <1>1
<1>8. Tally(FlattenSeq(ss), R) = Cardinality(Q)
  <2> HIDE DEF ss, R, Q, m, S
  <2> QED BY <1>5, <1>6, <1>7, TallyPlaces
<1>9. MaskRejections(c, mask, e) = FlattenSeq(ss)
  BY DEF MaskRejections
<1> QED BY <1>8, <1>9

(* The rules a tone table is checked under.                                *)
LEMMA ToneClassesPlain ==
    ASSUME NEW c PROVE ToneClasses(c) \subseteq PlainRules /\ "mux_tone_mask" \notin PlainRules
  BY DEF ToneClasses, FrequencyClasses, PhaseClasses, AmplitudeClasses, PlainRules

(* Rejections at one element are counted where they are cited.             *)
LEMMA CitedCount ==
    ASSUME sink \in Seq(Rejected), NEW rule, NEW e
    PROVE  /\ Cardinality(Cited(rule, {e})) = Tally(sink, Blame(rule, e))
           /\ Tally(sink, Blame(rule, e)) = 0 => Cited(rule, {e}) = {}
<1>1. DOMAIN sink = 1 .. Len(sink) /\ \A n \in DOMAIN sink : sink[n] \in Rejected
  BY LenProperties, ElementOfSeq
<1>2. Cited(rule, {e}) = {n \in DOMAIN sink : sink[n] \in Blame(rule, e)}
  BY <1>1 DEF Cited, Blame
<1>3. Tally(sink, Blame(rule, e)) = 0 => Cited(rule, {e}) = {}
  BY <1>2, TallyNone
<1> QED BY <1>2, <1>3 DEF Tally

(* What a table and a mask say, under which rules.                         *)
LEMMA TableSays ==
    ASSUME Bound, NEW p \in Seq(ElementSet), NEW c \in DOMAIN Channels, HasTones(c),
           NEW i \in PlaysOn(p, c)
    PROVE  /\ TableAt(p, c, i) \in Seq(Rejected) /\ Tells(TableAt(p, c, i), PlainRules, i)
           /\ p[i].mask \in Seq(Nat)
           /\ Tells(MaskRejections(c, p[i].mask, i), {"mux_tone_mask"}, i)
<1>1. /\ i \in Nat /\ p[i] \in ElementSet /\ p[i].kind = "play" /\ ChannelOf(p[i].frame) = c
  BY LenProperties, ElementOfSeq DEF PlaysOn
<1>2. p[i].mask \in Seq(Nat)
  BY <1>1, ElementAssumption
<1>3. MaskRejections(c, p[i].mask, i) \in Seq(Of({"mux_tone_mask"}, {i}))
  BY <1>2, MaskOf
<1>4. TableAt(p, c, i) \in Seq(Of(PlainRules, {i}))
  BY ToneOf, EmptySeq DEF TableAt
<1>5. PlainRules \in SUBSET ElementRules /\ {"mux_tone_mask"} \in SUBSET ElementRules
  BY DEF ElementRules, ValueRules
<1>6. Tells(TableAt(p, c, i), PlainRules, i) /\ Tells(MaskRejections(c, p[i].mask, i), {"mux_tone_mask"}, i)
  BY <1>1, <1>3, <1>4, <1>5, TellsOf
<1> QED BY <1>2, <1>6 DEF Tells

(* What every play on a channel is cited for, in numbers.                  *)
LEMMA TonesCounted ==
    ASSUME TInv, ProgramRead, NEW c \in DOMAIN Channels, HasTones(c), NEW i \in PlaysOn(prog, c)
    PROVE  /\ \A rule \in PlainRules :
                 /\ Cardinality(Cited(rule, {i})) = Tally(TableAt(prog, c, i), Blame(rule, i))
                 /\ TableAt(prog, c, i) = << >> => Cited(rule, {i}) = {}
           /\ Cardinality(Cited("mux_tone_mask", {i}))
                  = Tally(MaskRejections(c, prog[i].mask, i), Blame("mux_tone_mask", i))
           /\ prog[i].mask \in Seq(Nat) /\ i \in Nat /\ TableAt(prog, c, i) \in Seq(Rejected)
<1> DEFINE table == TableAt(prog, c, i)
           mask  == MaskRejections(c, prog[i].mask, i)
<1>1. /\ sink \in Seq(Rejected) /\ prog \in Seq(ElementSet) /\ Bound
      /\ TonesAt(prog, sink, c, i) /\ i \in Nat
  <2>1. sink \in Seq(Rejected) /\ prog \in Seq(ElementSet) /\ Bound
    BY DEF TInv, HInv, IInv, Typed, ProgramRead
  <2>2. TonesSaid(prog, sink)
    BY DEF TInv, ProgramRead, Loop
  <2>3. i \in Nat
    BY <2>1, LenProperties DEF PlaysOn
  <2> QED BY <2>1, <2>2, <2>3 DEF TonesSaid
<1>2. /\ table \in Seq(Rejected) /\ Tells(table, PlainRules, i)
      /\ prog[i].mask \in Seq(Nat) /\ Tells(mask, {"mux_tone_mask"}, i) /\ mask \in Seq(Rejected)
  BY <1>1, TableSays DEF Tells
<1> HIDE DEF table, mask
<1>3. ASSUME NEW rule \in ValueRules
      PROVE  /\ Cardinality(Cited(rule, {i})) = Tally(table, Blame(rule, i)) + Tally(mask, Blame(rule, i))
             /\ Tally(table, Blame(rule, i)) \in Nat /\ Tally(mask, Blame(rule, i)) \in Nat
             /\ Tally(table, Blame(rule, i)) + Tally(mask, Blame(rule, i)) = 0 => Cited(rule, {i}) = {}
  BY <1>1, <1>2, CitedCount, TallyNatural DEF TonesAt, table, mask
<1>4. ASSUME NEW rule \in PlainRules
      PROVE  /\ Cardinality(Cited(rule, {i})) = Tally(table, Blame(rule, i))
             /\ table = << >> => Cited(rule, {i}) = {}
  <2>1. rule \in ValueRules /\ rule # "mux_tone_mask"
    BY <1>4, ToneClassesPlain DEF ValueRules
  <2>2. Tally(mask, Blame(rule, i)) = 0
    BY <1>2, <2>1, TellsNone
  <2>3. table = << >> => Tally(table, Blame(rule, i)) = 0
    BY TallyOne
  <2>4. /\ Cardinality(Cited(rule, {i})) = Tally(table, Blame(rule, i)) + Tally(mask, Blame(rule, i))
        /\ Tally(table, Blame(rule, i)) \in Nat
        /\ Tally(table, Blame(rule, i)) + Tally(mask, Blame(rule, i)) = 0 => Cited(rule, {i}) = {}
    BY <1>3, <2>1
  <2>5. Tally(table, Blame(rule, i)) + 0 = Tally(table, Blame(rule, i))
    BY <2>4
  <2>6. Cardinality(Cited(rule, {i})) = Tally(table, Blame(rule, i))
    BY <2>2, <2>4, <2>5
  <2>7. table = << >> => Cited(rule, {i}) = {}
    BY <2>2, <2>3, <2>4, <2>5
  <2> QED BY <2>6, <2>7
<1>5. Cardinality(Cited("mux_tone_mask", {i})) = Tally(mask, Blame("mux_tone_mask", i))
  <2>1. "mux_tone_mask" \in ValueRules /\ "mux_tone_mask" \notin PlainRules
    BY ToneClassesPlain DEF ValueRules
  <2>2. Tally(table, Blame("mux_tone_mask", i)) = 0
    BY <1>2, <2>1, TellsNone
  <2> QED BY <1>3, <2>1, <2>2
<1> QED BY <1>1, <1>2, <1>4, <1>5 DEF table, mask

(* What a muxed play sounds was looked at, once: however many plays sound  *)
(* a channel, its tone table is cited at the first of them and nowhere     *)
(* else, and each play is cited for every stray index of its own mask.     *)
THEOREM TonesTheorem == HSpec => []TonesChecked
<1>1. HInit => TInv
  BY InitHInv, InitTones DEF TInv
<1>2. TInv /\ [HNext]_<< vars, before >> => TInv'
  <2> SUFFICES ASSUME TInv, [HNext]_<< vars, before >> PROVE TInv'
    OBVIOUS
  <2>1. HInv' /\ [Next]_vars
    BY StepHInv DEF TInv, HNext
  <2> QED BY <2>1, ElementKeepsTones, OtherKeepsTones DEF TInv
<1>3. ASSUME TInv, ProgramRead PROVE ToneTablesCheckedOnce
  <2> SUFFICES ASSUME NEW c \in DOMAIN Channels, HasTones(c), SoundedBy(c) # {},
                      NEW rule \in ToneClasses(c)
               PROVE  LET first    == Min(SoundedBy(c))
                          table    == ToneRejections(c, first)
                          expected == {n \in DOMAIN table : table[n].rule = rule}
                      IN  /\ Cardinality(Cited(rule, SoundedBy(c))) = Cardinality(expected)
                          /\ Cited(rule, SoundedBy(c)) = Cited(rule, {first})
    BY <1>3 DEF ToneTablesCheckedOnce
  <2> DEFINE S == PlaysOn(prog, c)
  <2>1. SoundedBy(c) = S /\ S \subseteq Nat
    BY <1>3, LenProperties DEF SoundedBy, PlaysOn, TInv, HInv, IInv, Typed
  <2> HIDE DEF S
  <2>2. PICK x \in S : \A y \in S : x <= y
    BY <2>1, LeastElement
  <2>3. Min(SoundedBy(c)) = x
    BY <2>1, <2>2, MinIs
  <2> DEFINE table == ToneRejections(c, x)
             expected == {n \in DOMAIN table : table[n].rule = rule}
  <2>4. \A i \in S : Earliest(i, S) <=> i = x
    BY <2>1, <2>2 DEF Earliest
  <2>5. \A i \in S : TableAt(prog, c, i) = IF i = x THEN table ELSE << >>
    BY <2>4 DEF S, TableAt
  <2>6. rule \in PlainRules
    BY ToneClassesPlain
  <2>7. ASSUME NEW i \in S, i # x PROVE Cited(rule, {i}) = {}
    BY <1>3, <2>5, <2>6, <2>7, TonesCounted DEF S
  <2>8. Cited(rule, S) = Cited(rule, {x})
    <3>1. \A n : n \in Cited(rule, S) <=> \E i \in S : n \in Cited(rule, {i})
      BY DEF Cited
    <3> QED BY <2>2, <2>7, <3>1
  <2>9. Cardinality(Cited(rule, {x})) = Tally(table, Blame(rule, x)) /\ table \in Seq(Rejected)
        /\ Tells(table, PlainRules, x)
    <3>1. TableAt(prog, c, x) = table
      BY <2>2, <2>5
    <3>2. prog \in Seq(ElementSet) /\ Bound
      BY <1>3 DEF TInv, HInv, IInv, Typed, ProgramRead
    <3> HIDE DEF table
    <3>3. Tells(TableAt(prog, c, x), PlainRules, x)
      BY <2>2, <3>2, TableSays DEF S
    <3> QED BY <1>3, <2>2, <2>6, <3>1, <3>3, TonesCounted DEF S
  <2>10. Tally(table, Blame(rule, x)) = Cardinality(expected)
    <3> HIDE DEF table
    <3>1. \A n \in DOMAIN table : table[n] \in Rejected /\ (table[n].rule \in ValueRules => table[n].element = x)
      BY <2>9, LenProperties, ElementOfSeq DEF Tells
    <3>2. rule \in ValueRules
      BY <2>6 DEF ValueRules
    <3>3. {n \in DOMAIN table : table[n] \in Blame(rule, x)} = expected
      BY <3>1, <3>2 DEF Blame
    <3> QED BY <3>3 DEF Tally
  <2> HIDE DEF table, expected
  <2>11. Cardinality(Cited(rule, S)) = Cardinality(expected)
    BY <2>8, <2>9, <2>10
  <2> QED BY <2>1, <2>3, <2>8, <2>11 DEF table, expected
<1>4. ASSUME TInv, ProgramRead PROVE MasksNameTones
  <2> SUFFICES ASSUME NEW c \in DOMAIN Channels, HasTones(c), Declared(c, "mux_tone_mask"),
                      NEW i \in SoundedBy(c)
               PROVE  Cardinality(Cited("mux_tone_mask", {i}))
                          = Cardinality({n \in DOMAIN prog[i].mask :
                                            prog[i].mask[n] + 1 \notin DOMAIN Channels[c].tones})
    BY <1>4 DEF MasksNameTones
  <2>1. i \in PlaysOn(prog, c)
    BY DEF SoundedBy, PlaysOn
  <2>2. Bound
    BY <1>4 DEF TInv, HInv, ProgramRead
  <2>3. /\ Cardinality(Cited("mux_tone_mask", {i}))
               = Tally(MaskRejections(c, prog[i].mask, i), Blame("mux_tone_mask", i))
        /\ prog[i].mask \in Seq(Nat) /\ i \in Nat
    BY <1>4, <2>1, TonesCounted
  <2> QED BY <2>2, <2>3, MaskCounts
<1>5. TInv => TonesChecked
  <2>1. CASE ProgramRead
    BY <1>3, <1>4, <2>1 DEF TonesChecked
  <2>2. CASE ~ProgramRead
    BY <2>2 DEF TonesChecked, ToneTablesCheckedOnce, MasksNameTones
  <2> QED BY <2>1, <2>2
<1> QED BY <1>1, <1>2, <1>5, PTL DEF HSpec

-----------------------------------------------------------------------------
(* Envelope memory.  The plays of the program p that load a sampled        *)
(* waveform into the memory of owner o, the waveforms in it up to element  *)
(* i, and the samples they take.                                           *)
LoadsOf(el, o) == PlaysWaveform(el) /\ Owner(el.frame) = o /\ IsSampled(el.waveform)

Loading(p, o) == {i \in DOMAIN p : LoadsOf(p[i], o)}

HeldBy(p, o, i) == {p[k].waveform : k \in {k \in Loading(p, o) : k <= i}}

Sizes(W) == [w \in W |-> Samples(w)]

Load(p, o, i) == SumFunction(Sizes(HeldBy(p, o, i)))

(* A waveform that is played is finite, and so is what is held.            *)
LEMMA LoadingTypes ==
    ASSUME NEW p \in Seq(ElementSet), NEW o, NEW i \in Loading(p, o)
    PROVE  /\ i \in Nat /\ i >= 1 /\ i <= Len(p) /\ p[i] \in ElementSet
           /\ PlaysWaveform(p[i]) /\ Owner(p[i].frame) = o /\ p[i].frame \in Frames
           /\ p[i].waveform \in DOMAIN Waveforms /\ Samples(p[i].waveform) \in Nat
<1>1. i \in 1 .. Len(p) /\ Len(p) \in Nat /\ p[i] \in ElementSet /\ LoadsOf(p[i], o)
  BY LenProperties, ElementOfSeq DEF Loading
<1>2. p[i].frame \in Frames /\ p[i].waveform \in DOMAIN Waveforms
  BY <1>1, ElementAssumption DEF LoadsOf, PlaysWaveform
<1>3. Samples(p[i].waveform) \in Nat
  BY <1>1, <1>2, WaveformAssumption, LenProperties DEF IsSampled, Samples, LoadsOf
<1> QED BY <1>1, <1>2, <1>3 DEF LoadsOf

LEMMA HeldFinite ==
    ASSUME NEW p \in Seq(ElementSet), NEW o, NEW i
    PROVE  /\ IsFiniteSet(HeldBy(p, o, i))
           /\ Sizes(HeldBy(p, o, i)) \in [HeldBy(p, o, i) -> Int]
           /\ \A w \in HeldBy(p, o, i) : Samples(w) \in Nat
<1> DEFINE D == {k \in Loading(p, o) : k <= i}
           g == [k \in D |-> p[k].waveform]
           W == HeldBy(p, o, i)
<1>1. IsFiniteSet(D)
  <2>1. D \in SUBSET DOMAIN p
    BY DEF Loading
  <2> HIDE DEF D
  <2> QED BY <2>1, PlacesFinite
<1>2. g \in Surjection(D, W)
  <2>1. g \in [D -> W] /\ \A w \in W : \E k \in D : g[k] = w
    BY DEF HeldBy
  <2> HIDE DEF g, D, W
  <2> QED BY <2>1, Fun_IsSurj
<1>3. \A w \in W : Samples(w) \in Nat
  BY LoadingTypes DEF HeldBy
<1> HIDE DEF g, D
<1>4. IsFiniteSet(W)
  <2> HIDE DEF W
  <2> QED BY <1>1, <1>2, FS_Surjection
<1>5. Sizes(W) \in [W -> Int]
  BY <1>3 DEF Sizes
<1> QED BY <1>3, <1>4, <1>5

(* One more waveform takes its samples.                                    *)
LEMMA SizesGrow ==
    ASSUME NEW W, IsFiniteSet(W), \A v \in W : Samples(v) \in Nat, NEW w, Samples(w) \in Nat
    PROVE  /\ SumFunction(Sizes(W)) \in Int
           /\ w \notin W => SumFunction(Sizes(W \cup {w})) = SumFunction(Sizes(W)) + Samples(w)
           /\ w \in W => SumFunction(Sizes(W \cup {w})) = SumFunction(Sizes(W))
<1>1. Sizes(W) \in [W -> Int]
  BY DEF Sizes
<1>2. SumFunction(Sizes(W)) \in Int
  BY <1>1, SumTakes DEF SumFunction
<1>3. ASSUME w \notin W
      PROVE  SumFunction(Sizes(W \cup {w})) = SumFunction(Sizes(W)) + Samples(w)
  <2>1. OneMoreTerm(W, w, Sizes(W), Sizes(W \cup {w}))
    BY <1>1, <1>3 DEF OneMoreTerm, Sizes
  <2>2. Sizes(W \cup {w})[w] = Samples(w)
    BY DEF Sizes
  <2> QED BY <2>1, <2>2, SumGrows
<1>4. w \in W => W \cup {w} = W
  OBVIOUS
<1>5. w \in W => SumFunction(Sizes(W \cup {w})) = SumFunction(Sizes(W))
  BY <1>4, Zenon
<1> QED BY <1>2, <1>3, <1>5

(* What is held up to one more element.                                    *)
LEMMA LoadStep ==
    ASSUME NEW p \in Seq(ElementSet), NEW o, NEW n \in Nat
    PROVE  LET w == p[n + 1].waveform
               W == HeldBy(p, o, n)
           IN  /\ Load(p, o, n) \in Int
               /\ n + 1 \notin Loading(p, o) =>
                     HeldBy(p, o, n + 1) = W /\ Load(p, o, n + 1) = Load(p, o, n)
               /\ n + 1 \in Loading(p, o) =>
                     /\ HeldBy(p, o, n + 1) = W \cup {w}
                     /\ w \in W => Load(p, o, n + 1) = Load(p, o, n)
                     /\ w \notin W => Load(p, o, n + 1) = Load(p, o, n) + Samples(w)
                     /\ Samples(w) \in Nat
<1> DEFINE w == p[n + 1].waveform
           W == HeldBy(p, o, n)
<1>1. Loading(p, o) \subseteq Nat
  BY LoadingTypes
<1>2. {k \in Loading(p, o) : k <= n + 1}
          = {k \in Loading(p, o) : k <= n} \cup IF n + 1 \in Loading(p, o) THEN {n + 1} ELSE {}
  BY <1>1
<1>3. HeldBy(p, o, n + 1) = W \cup IF n + 1 \in Loading(p, o) THEN {w} ELSE {}
  BY <1>2 DEF HeldBy
<1>4. IsFiniteSet(W) /\ \A v \in W : Samples(v) \in Nat
  BY HeldFinite
<1>5. Load(p, o, n) = SumFunction(Sizes(W))
  BY DEF Load
<1>6. SumFunction(Sizes(W)) \in Int
  BY HeldFinite, SumTakes DEF SumFunction
<1>7. ASSUME n + 1 \notin Loading(p, o)
      PROVE  HeldBy(p, o, n + 1) = W /\ Load(p, o, n + 1) = Load(p, o, n)
  <2>1. HeldBy(p, o, n + 1) = W
    BY <1>3, <1>7
  <2> QED BY <2>1, Zenon DEF Load
<1>8. ASSUME n + 1 \in Loading(p, o)
      PROVE  /\ HeldBy(p, o, n + 1) = W \cup {w}
             /\ w \in W => Load(p, o, n + 1) = Load(p, o, n)
             /\ w \notin W => Load(p, o, n + 1) = Load(p, o, n) + Samples(w)
             /\ Samples(w) \in Nat
  <2>1. HeldBy(p, o, n + 1) = W \cup {w}
    BY <1>3, <1>8
  <2>2. Samples(w) \in Nat
    BY <1>8, LoadingTypes
  <2>3. Load(p, o, n + 1) = SumFunction(Sizes(W \cup {w}))
    BY <2>1, Zenon DEF Load
  <2> HIDE DEF W, w
  <2> QED BY <1>4, <1>5, <2>1, <2>2, <2>3, SizesGrow
<1> QED BY <1>5, <1>6, <1>7, <1>8

(* The memory of an owner only fills.                                      *)
LEMMA LoadMonotone ==
    ASSUME NEW p \in Seq(ElementSet), NEW o, NEW i \in Nat, NEW j \in Nat, i <= j
    PROVE  Load(p, o, i) <= Load(p, o, j)
<1> DEFINE S == {n \in Nat : Load(p, o, i) <= Load(p, o, i + n)}
<1>1. 0 \in S
  <2>1. Load(p, o, i) \in Int /\ i + 0 = i
    BY LoadStep
  <2> HIDE DEF S
  <2> USE DEF S
  <2> QED BY <2>1
<1>2. ASSUME NEW n \in Nat, n \in S PROVE n + 1 \in S
  <2> DEFINE m == i + n
  <2>1. m \in Nat /\ i + (n + 1) = m + 1 /\ Load(p, o, i) <= Load(p, o, m)
    BY <1>2
  <2> HIDE DEF m
  <2>2. Load(p, o, m) <= Load(p, o, m + 1)
    <3>1. Load(p, o, m) \in Int
      BY <2>1, LoadStep
    <3>2. CASE m + 1 \notin Loading(p, o)
      BY <2>1, <3>1, <3>2, LoadStep
    <3>3. CASE m + 1 \in Loading(p, o)
      <4>1. Samples(p[m + 1].waveform) \in Nat
        BY <3>3, LoadingTypes
      <4>2. \/ Load(p, o, m + 1) = Load(p, o, m)
            \/ Load(p, o, m + 1) = Load(p, o, m) + Samples(p[m + 1].waveform)
        BY <2>1, <3>3, LoadStep
      <4> QED BY <3>1, <4>1, <4>2
    <3> QED BY <3>2, <3>3
  <2>3. Load(p, o, m) \in Int /\ Load(p, o, m + 1) \in Int /\ Load(p, o, i) \in Int
    BY <2>1, LoadStep
  <2>4. Load(p, o, i) <= Load(p, o, m + 1)
    BY <2>1, <2>2, <2>3
  <2> QED BY <2>1, <2>4
<1>3. S = Nat
  <2> HIDE DEF S
  <2>1. S \subseteq Nat
    BY DEF S
  <2> QED BY <1>1, <1>2, <2>1, SetInduction
<1>4. j - i \in Nat /\ i + (j - i) = j
  OBVIOUS
<1>5. j - i \in S
  <2> HIDE DEF S
  <2> QED BY <1>3, <1>4
<1> QED BY <1>4, <1>5

(* The plays before the new one hold what they held.                       *)
LEMMA LoadingGrows ==
    ASSUME NEW p \in Seq(ElementSet), NEW el \in ElementSet, NEW o
    PROVE  /\ Loading(Append(p, el), o)
                  = Loading(p, o) \cup IF LoadsOf(el, o) THEN {Len(p) + 1} ELSE {}
           /\ Loading(p, o) \subseteq 1 .. Len(p)
           /\ \A n \in Nat : n <= Len(p) =>
                 /\ HeldBy(Append(p, el), o, n) = HeldBy(p, o, n)
                 /\ Load(Append(p, el), o, n) = Load(p, o, n)
<1> DEFINE q == Append(p, el)
           e == Len(p) + 1
<1>1. /\ Len(p) \in Nat /\ DOMAIN p = 1 .. Len(p)
      /\ DOMAIN q = 1 .. e /\ q[e] = el /\ \A i \in 1 .. Len(p) : q[i] = p[i]
  BY OneMore, LenProperties, AppendProperties
<1>2. 1 .. e = (1 .. Len(p)) \cup {e} /\ e \notin 1 .. Len(p)
  BY <1>1
<1> HIDE DEF q, e
<1>3. /\ Loading(q, o) = Loading(p, o) \cup IF LoadsOf(el, o) THEN {e} ELSE {}
      /\ Loading(p, o) \subseteq 1 .. Len(p)
  BY <1>1, <1>2 DEF Loading
<1>4. ASSUME NEW n \in Nat, n <= Len(p) PROVE HeldBy(q, o, n) = HeldBy(p, o, n)
  <2>1. \A k \in Loading(p, o) : q[k] = p[k]
    BY <1>1, <1>3
  <2>2. {k \in Loading(q, o) : k <= n} = {k \in Loading(p, o) : k <= n}
    BY <1>1, <1>3, <1>4 DEF e
  <2> QED BY <2>1, <2>2 DEF HeldBy
<1>5. ASSUME NEW n \in Nat, n <= Len(p) PROVE Load(q, o, n) = Load(p, o, n)
  <2>1. HeldBy(q, o, n) = HeldBy(p, o, n)
    BY <1>4, <1>5
  <2> QED BY <2>1, Zenon DEF Load
<1> QED BY <1>3, <1>4, <1>5 DEF q, e

(* Frames that share a memory are of one channel.                          *)
LEMMA OneOwner ==
    ASSUME NEW f \in Frames, NEW g \in Frames, Owner(f) = Owner(g)
    PROVE  ChannelOf(f) = ChannelOf(g)
<1>1. "channel" # "frame"
  OBVIOUS
<1>2. \A a, b : << "channel", a >> # << "frame", b >>
  BY <1>1
<1>3. CASE /\ Device[ChannelOf(f)].capabilities.memoryPerFrame
           /\ Device[ChannelOf(g)].capabilities.memoryPerFrame
  BY <1>3 DEF Owner
<1>4. CASE /\ ~Device[ChannelOf(f)].capabilities.memoryPerFrame
           /\ ~Device[ChannelOf(g)].capabilities.memoryPerFrame
  BY <1>4 DEF Owner
<1> QED BY <1>2, <1>3, <1>4 DEF Owner

(* What an element loads. *)
LoadsHere(el) == PlaysWaveform(el) /\ Loads(el.frame, el.waveform)

LEMMA ElementLoads ==
    ASSUME IInv, NEW el \in ElementSet, ReadElement(el), ~ToolError
    PROVE  LET o == Owner(el.frame)
           IN  /\ envSeen' = IF LoadsHere(el) THEN envSeen \cup {<< o, el.waveform >>} ELSE envSeen
               /\ envUsed' = IF LoadsHere(el)
                             THEN [envUsed EXCEPT ![o] = @ + Samples(el.waveform)] ELSE envUsed
<1>1. CASE Play(el)
  <2>1. el.kind = "play"
    BY <1>1 DEF Play, Reads
  <2>2. CASE PlayWaveform(el)
    BY <2>1, <2>2 DEF PlayWaveform, LoadsHere, PlaysWaveform
  <2>3. CASE PlayTones(el)
    BY <2>1, <2>3 DEF PlayTones, LoadsHere, PlaysWaveform
  <2> QED BY <1>1, <2>2, <2>3 DEF Play
<1>2. CASE ~Play(el)
  <2>1. el.kind # "play" /\ envSeen' = envSeen /\ envUsed' = envUsed
    BY <1>2 DEF ReadElement, Barrier, ShiftPhase, SetFrequency, Delay, Capture, Reads, envVars
  <2> QED BY <2>1 DEF LoadsHere, PlaysWaveform
<1> QED BY <1>1, <1>2

(* The memory of frame f, what is known of what it holds, and what play i  *)
(* of the program is cited for.                                            *)
MemoryOf(f) == Device[ChannelOf(f)].capabilities.memory

LoadedRight(p, seen, used, o) ==
    /\ \A w : << o, w >> \in seen <=> w \in HeldBy(p, o, Len(p))
    /\ used[o] = Load(p, o, Len(p))

Crosses(p, o, memory, i) ==
    memory # Absent /\ Load(p, o, i - 1) <= memory /\ Load(p, o, i) > memory

MemorySaid(p, k, o, memory) ==
    \A i \in Loading(p, o) :
        Tally(k, Blame("envelope_memory", i)) = One(Crosses(p, o, memory, i))

(* What a play that loads is cited for.                                    *)
LEMMA MemoryTold ==
    ASSUME NEW f, NEW w, NEW e \in Nat
    PROVE  Tally(MemoryRejections(f, w, e), Blame("envelope_memory", e))
               = One(/\ Loads(f, w) /\ envUsed[Owner(f)] <= MemoryOf(f)
                     /\ envUsed[Owner(f)] + Samples(w) > MemoryOf(f))
<1> DEFINE over == envUsed[Owner(f)] <= MemoryOf(f) /\ envUsed[Owner(f)] + Samples(w) > MemoryOf(f)
           r == Fatal("envelope_memory", e)
           R == Blame("envelope_memory", e)
<1>1. r \in R
  <2>1. "envelope_memory" \in Classes \ {"negative_time"}
    BY RulesAreClasses DEF ElementRules, ValueRules
  <2> QED BY <2>1, FatalRejected DEF Blame
<1>2. MemoryRejections(f, w, e) = IF Loads(f, w) /\ over THEN << r >> ELSE << >>
  BY DEF MemoryRejections, When, MemoryOf
<1>3. Tally(<< r >>, R) = 1 /\ Tally(<< >>, R) = 0
  BY <1>1, TallyOne
<1> HIDE DEF r, R, over
<1>4. Tally(MemoryRejections(f, w, e), R) = One(Loads(f, w) /\ over)
  <2>1. CASE Loads(f, w) /\ over
    BY <1>2, <1>3, <2>1 DEF One
  <2>2. CASE ~(Loads(f, w) /\ over)
    BY <1>2, <1>3, <2>2 DEF One
  <2> QED BY <2>1, <2>2
<1> QED BY <1>4 DEF r, R, over

(* What the memories hold, and what the sink says of them.                 *)
MemoryRight(f) ==
    /\ MemoryOf(f) # Absent => LoadedRight(prog, envSeen, envUsed, Owner(f))
    /\ phase \in Loop => MemorySaid(prog, sink, Owner(f), MemoryOf(f))

MemoriesRight == \A f \in Frames : ~HasTones(ChannelOf(f)) => MemoryRight(f)

EInv == TInv /\ MemoriesRight

(* An element that loads into the memory of frame f fills it, and is cited *)
(* if it overflows.                                                        *)
LEMMA LoadFills ==
    ASSUME EInv, NEW el \in ElementSet, ReadElement(el), ~ToolError, Bound,
           NEW f \in Frames, ~HasTones(ChannelOf(f)), LoadsOf(el, Owner(f))
    PROVE  LET e == Len(prog) + 1
               q == Append(prog, el)
           IN  /\ Tally(MemoryRejections(el.frame, el.waveform, e), Blame("envelope_memory", e))
                      = One(Crosses(q, Owner(f), MemoryOf(f), e))
               /\ MemoryOf(f) # Absent => LoadedRight(q, envSeen', envUsed', Owner(f))
<1> DEFINE o == Owner(f)
           memory == MemoryOf(f)
           w == el.waveform
           n == Len(prog)
           e == n + 1
           q == Append(prog, el)
           W == HeldBy(prog, o, n)
           used == envUsed[o]
<1>1. /\ IInv /\ prog \in Seq(ElementSet) /\ n \in Nat /\ envUsed \in [Owners -> Nat]
  BY LenProperties DEF EInv, TInv, HInv, IInv, Typed
<1>2. /\ el.frame \in Frames /\ Owner(el.frame) = o /\ MemoryOf(el.frame) = memory
      /\ IsSampled(w) /\ PlaysWaveform(el) /\ o \in Owners
  <2>1. el.frame \in Frames /\ Owner(el.frame) = o
    BY ElementAssumption DEF LoadsOf, PlaysWaveform
  <2>2. MemoryOf(el.frame) = memory
    BY <2>1, OneOwner DEF MemoryOf
  <2>3. o \in Owners
    BY FrameChannel DEF Owner, Owners
  <2> QED BY <2>1, <2>2, <2>3 DEF LoadsOf
<1>3. /\ q \in Seq(ElementSet) /\ Len(q) = e /\ q[e] = el
      /\ e \in Loading(q, o) /\ HeldBy(q, o, n) = W /\ Load(q, o, n) = Load(prog, o, n)
  <2>1. q \in Seq(ElementSet) /\ Len(q) = e /\ q[e] = el
    BY <1>1, OneMore, AppendProperties
  <2>2. e \in Loading(q, o)
    BY <1>1, LoadingGrows
  <2>3. HeldBy(q, o, n) = W /\ Load(q, o, n) = Load(prog, o, n)
    BY <1>1, LoadingGrows
  <2> QED BY <2>1, <2>2, <2>3
<1>4. Loads(el.frame, w) <=> memory # Absent /\ << o, w >> \notin envSeen
  BY <1>2 DEF Loads, MemoryOf
<1>5. /\ HeldBy(q, o, e) = W \cup {w} /\ Load(q, o, n) \in Int /\ Samples(w) \in Nat
      /\ w \in W => Load(q, o, e) = Load(q, o, n)
      /\ w \notin W => Load(q, o, e) = Load(q, o, n) + Samples(w)
  <2> HIDE DEF q, W, w
  <2>1. q[n + 1].waveform = w /\ n + 1 = e
    BY <1>3 DEF w
  <2> HIDE DEF e
  <2> QED BY <1>1, <1>3, <2>1, LoadStep
<1>6. Tally(MemoryRejections(el.frame, w, e), Blame("envelope_memory", e))
          = One(Loads(el.frame, w) /\ used <= memory /\ used + Samples(w) > memory)
  <2>1. e \in Nat
    BY <1>1
  <2> HIDE DEF e, w
  <2> QED BY <1>2, <2>1, MemoryTold
<1>7. e - 1 = n /\ e \in Nat
  BY <1>1
<1>8. CASE memory = Absent
  <2>1. ~Loads(el.frame, w) /\ ~Crosses(q, o, memory, e)
    BY <1>4, <1>8 DEF Crosses
  <2> HIDE DEF e, q, w, memory, o
  <2>2. One(Loads(el.frame, w) /\ used <= memory /\ used + Samples(w) > memory)
            = One(Crosses(q, o, memory, e))
    BY <2>1 DEF One
  <2> USE DEF e, q, w, memory, o
  <2> QED BY <1>6, <1>8, <2>2
<1>9. CASE memory # Absent
  <2>1. memory \in Int
    BY <1>9, FrameChannel, MemoryAssumption DEF MemoryOf, Bound
  <2>2. (\A v : << o, v >> \in envSeen <=> v \in W) /\ used = Load(prog, o, n)
    BY <1>9 DEF EInv, MemoriesRight, MemoryRight, LoadedRight
  <2>3. LoadsHere(el) <=> w \notin W
    BY <1>2, <1>4, <1>9, <2>2 DEF LoadsHere
  <2>4. /\ envSeen' = IF LoadsHere(el) THEN envSeen \cup {<< o, w >>} ELSE envSeen
        /\ envUsed' = IF LoadsHere(el) THEN [envUsed EXCEPT ![o] = @ + Samples(w)] ELSE envUsed
    BY <1>1, <1>2, ElementLoads
  <2>5. envUsed'[o] = IF w \in W THEN used ELSE used + Samples(w)
    BY <1>1, <1>2, <2>3, <2>4
  <2>6. \A v : << o, v >> \in envSeen' <=> v \in W \cup {w}
    BY <2>2, <2>3, <2>4
  <2> HIDE DEF e, q, w, W, memory, o, used, n
  <2>7. envUsed'[o] = Load(q, o, e)
    BY <1>3, <1>5, <2>2, <2>5
  <2>8. LoadedRight(q, envSeen', envUsed', o)
    BY <1>3, <1>5, <2>6, <2>7 DEF LoadedRight
  <2>9. Loads(el.frame, w) /\ used <= memory /\ used + Samples(w) > memory
            <=> Crosses(q, o, memory, e)
    <3>1. Crosses(q, o, memory, e) <=> used <= memory /\ Load(q, o, e) > memory
      BY <1>3, <1>7, <1>9, <2>2 DEF Crosses
    <3>2. CASE w \in W
      <4>1. ~Loads(el.frame, w) /\ Load(q, o, e) = used /\ used \in Int
        BY <1>3, <1>4, <1>5, <2>2, <3>2
      <4> QED BY <2>1, <3>1, <4>1
    <3>3. CASE w \notin W
      <4>1. Loads(el.frame, w) /\ Load(q, o, e) = used + Samples(w)
        BY <1>3, <1>4, <1>5, <1>9, <2>2, <3>3
      <4> QED BY <3>1, <4>1
    <3> QED BY <3>2, <3>3
  <2>10. One(Loads(el.frame, w) /\ used <= memory /\ used + Samples(w) > memory)
             = One(Crosses(q, o, memory, e))
    BY <2>9 DEF One
  <2> USE DEF e, q, w, W, memory, o, used, n
  <2> QED BY <1>6, <2>8, <2>10
<1> QED BY <1>8, <1>9

(* Any other element leaves it as it was.                                  *)
LEMMA OthersLoad ==
    ASSUME EInv, NEW el \in ElementSet, ReadElement(el), ~ToolError,
           NEW f \in Frames, ~HasTones(ChannelOf(f)), ~LoadsOf(el, Owner(f)), MemoryOf(f) # Absent
    PROVE  LoadedRight(Append(prog, el), envSeen', envUsed', Owner(f))
<1> DEFINE o == Owner(f)
           n == Len(prog)
           q == Append(prog, el)
           W == HeldBy(prog, o, n)
<1>1. /\ IInv /\ prog \in Seq(ElementSet) /\ n \in Nat /\ envUsed \in [Owners -> Nat]
  BY LenProperties DEF EInv, TInv, HInv, IInv, Typed
<1>2. LoadsHere(el) => Owner(el.frame) # o
  BY DEF LoadsOf, LoadsHere, Loads
<1>3. (\A v : << o, v >> \in envSeen <=> v \in W) /\ envUsed[o] = Load(prog, o, n)
  BY DEF EInv, MemoriesRight, MemoryRight, LoadedRight
<1>4. o \in Owners
  BY FrameChannel DEF Owner, Owners
<1>5. (\A v : << o, v >> \in envSeen' <=> << o, v >> \in envSeen) /\ envUsed'[o] = envUsed[o]
  <2>1. CASE LoadsHere(el)
    <3>1. /\ envSeen' = envSeen \cup {<< Owner(el.frame), el.waveform >>}
          /\ envUsed' = [envUsed EXCEPT ![Owner(el.frame)] = @ + Samples(el.waveform)]
      BY <1>1, <2>1, ElementLoads
    <3> HIDE DEF o
    <3> QED BY <1>1, <1>2, <1>4, <2>1, <3>1
  <2>2. CASE ~LoadsHere(el)
    BY <1>1, <2>2, ElementLoads
  <2> QED BY <2>1, <2>2
<1>6. q \in Seq(ElementSet) /\ Len(q) = n + 1 /\ n + 1 \notin Loading(q, o)
      /\ HeldBy(q, o, n) = W /\ Load(q, o, n) = Load(prog, o, n)
  <2>1. q \in Seq(ElementSet) /\ Len(q) = n + 1
    BY <1>1, OneMore, AppendProperties
  <2>2. n + 1 \notin Loading(q, o)
    BY <1>1, LoadingGrows
  <2>3. HeldBy(q, o, n) = W /\ Load(q, o, n) = Load(prog, o, n)
    BY <1>1, LoadingGrows
  <2> QED BY <2>1, <2>2, <2>3
<1> HIDE DEF q, W, o
<1>7. HeldBy(q, o, n + 1) = W /\ Load(q, o, n + 1) = Load(prog, o, n)
  <2> HIDE DEF n
  <2> QED BY <1>1, <1>6, LoadStep
<1>8. LoadedRight(q, envSeen', envUsed', o)
  BY <1>3, <1>5, <1>6, <1>7 DEF LoadedRight
<1> QED BY <1>8 DEF q, o

(* A step of the checker keeps what the sink says of tones.                *)
LEMMA StepTInv ==
    ASSUME TInv, [HNext]_<< vars, before >> PROVE TInv'
<1>1. HInv' /\ [Next]_vars
  BY StepHInv DEF TInv, HNext
<1> QED BY <1>1, ElementKeepsTones, OtherKeepsTones DEF TInv

(* An element keeps what is known of the memory of frame f.                *)
LEMMA ElementKeepsMemory ==
    ASSUME EInv, NEW el \in ElementSet, ReadElement(el), ~ToolError,
           NEW f \in Frames, ~HasTones(ChannelOf(f))
    PROVE  /\ MemoryOf(f) # Absent => LoadedRight(prog', envSeen', envUsed', Owner(f))
           /\ MemorySaid(prog', sink', Owner(f), MemoryOf(f))
<1> DEFINE o == Owner(f)
           memory == MemoryOf(f)
           rule == "envelope_memory"
           n == Len(prog) + 1
           q == Append(prog, el)
<1>1. /\ IInv /\ sink \in Seq(Rejected) /\ prog \in Seq(ElementSet) /\ Bound
      /\ phase = "elements" /\ prog' = q /\ Element = n /\ Len(prog) \in Nat
  BY ElementMoves, LenProperties DEF EInv, TInv, HInv, IInv, Typed, Element
<1>2. Unsaid(prog, sink) /\ MemorySaid(prog, sink, o, memory)
  BY <1>1 DEF EInv, TInv, Loop, MemoriesRight, MemoryRight
<1>3. PICK s : Sent(el, s) /\ sink' = sink \o s
  BY <1>1, ElementSent
<1>4. Tells(s, ValueRules, n) /\ rule \in ValueRules
  BY <1>1, <1>3 DEF Sent, ValueRules
<1>5. Tally(sink \o s, Blame(rule, n)) = Tally(s, Blame(rule, n))
  <2> HIDE DEF n, rule
  <2> USE DEF n
  <2> QED BY <1>1, <1>2, <1>4, UnsaidGrows
<1>6. /\ Loading(q, o) = Loading(prog, o) \cup IF LoadsOf(el, o) THEN {n} ELSE {}
      /\ Loading(prog, o) \subseteq 1 .. Len(prog)
  BY <1>1, LoadingGrows
<1>7. ASSUME NEW i \in Loading(prog, o)
      PROVE  Tally(sink \o s, Blame(rule, i)) = One(Crosses(q, o, memory, i))
  <2>1. i \in Nat /\ i - 1 \in Nat /\ i <= Len(prog) /\ i - 1 <= Len(prog) /\ i # n
    BY <1>1, <1>6
  <2>2. Load(q, o, i) = Load(prog, o, i) /\ Load(q, o, i - 1) = Load(prog, o, i - 1)
    BY <1>1, <2>1, LoadingGrows
  <2>3. One(Crosses(q, o, memory, i)) = One(Crosses(prog, o, memory, i))
    BY <2>2 DEF Crosses
  <2>4. Tally(sink \o s, Blame(rule, i)) = Tally(sink, Blame(rule, i))
    BY <1>1, <1>4, <2>1, SaidOfOne
  <2> QED BY <1>2, <2>3, <2>4 DEF MemorySaid
<1>8. CASE LoadsOf(el, o)
  <2>1. el.kind = "play" /\ ~HasTones(ChannelOf(el.frame))
    BY <1>8 DEF LoadsOf, PlaysWaveform
  <2>2. Tally(s, Blame(rule, n)) = Tally(MemoryRejections(el.frame, el.waveform, n), Blame(rule, n))
    BY <1>1, <1>3, <2>1 DEF Sent
  <2>3. /\ Tally(MemoryRejections(el.frame, el.waveform, n), Blame(rule, n))
               = One(Crosses(q, o, memory, n))
        /\ memory # Absent => LoadedRight(q, envSeen', envUsed', o)
    BY <1>1, <1>8, LoadFills
  <2> HIDE DEF q, n, o, memory
  <2>4. MemorySaid(q, sink \o s, o, memory)
    BY <1>5, <1>6, <1>7, <1>8, <2>2, <2>3 DEF MemorySaid
  <2>5. /\ memory # Absent => LoadedRight(prog', envSeen', envUsed', o)
        /\ MemorySaid(prog', sink', o, memory)
    BY <1>1, <1>3, <2>3, <2>4
  <2> QED BY <2>5 DEF o, memory
<1>9. CASE ~LoadsOf(el, o)
  <2>1. memory # Absent => LoadedRight(q, envSeen', envUsed', o)
    BY <1>9, OthersLoad
  <2> HIDE DEF q, n, o, memory
  <2>2. MemorySaid(q, sink \o s, o, memory)
    BY <1>6, <1>7, <1>9 DEF MemorySaid
  <2>3. /\ memory # Absent => LoadedRight(prog', envSeen', envUsed', o)
        /\ MemorySaid(prog', sink', o, memory)
    BY <1>1, <1>3, <2>1, <2>2
  <2> QED BY <2>3 DEF o, memory
<1> QED BY <1>8, <1>9

(* So does every other step.                                               *)
LEMMA OtherKeepsMemory ==
    ASSUME EInv, [Next]_vars, ~\E el \in ElementSet : ReadElement(el) /\ ~ToolError
    PROVE  MemoriesRight'
<1>1. prog' = prog /\ (phase' \in Loop => phase \in Loop /\ sink' = sink)
  BY OtherSteps DEF EInv, TInv, HInv
<1>2. envSeen' = envSeen /\ envUsed' = envUsed
  BY DEF Next, ToolError, Bind, EndOfProgram, CloseSlots, CloseSpacing, SkipBudget, CountBudget,
         Finish, Idle, vars, envVars
<1> QED BY <1>1, <1>2 DEF EInv, MemoriesRight, MemoryRight

(* It holds before the program is read.                                    *)
LEMMA InitMemory ==
    ASSUME HInit PROVE MemoriesRight
<1>1. prog = << >> /\ envSeen = {} /\ envUsed = [o \in Owners |-> 0]
  BY DEF HInit, Init
<1>2. \A o : Loading(prog, o) = {} /\ Len(prog) = 0
  BY <1>1 DEF Loading
<1>3. ASSUME NEW f \in Frames PROVE MemoryRight(f)
  <2> DEFINE o == Owner(f)
             W == HeldBy(prog, o, Len(prog))
  <2>1. o \in Owners
    BY FrameChannel DEF Owner, Owners
  <2>2. W = {}
    BY <1>2 DEF HeldBy
  <2>3. Load(prog, o, Len(prog)) = 0
    <3>1. Load(prog, o, Len(prog)) = SumFunctionOnSet(Sizes(W), DOMAIN Sizes(W))
      BY DEF Load, SumFunction
    <3>2. DOMAIN Sizes(W) = {}
      BY <2>2 DEF Sizes
    <3> HIDE DEF W
    <3>3. SumFunctionOnSet(Sizes(W), DOMAIN Sizes(W)) = SumFunctionOnSet(Sizes(W), {})
      BY <3>2, Zenon
    <3> QED BY <3>1, <3>3, SumEmpty
  <2>4. envUsed[o] = 0
    BY <1>1, <2>1
  <2> QED BY <1>1, <1>2, <2>2, <2>3, <2>4 DEF MemoryRight, LoadedRight, MemorySaid
<1> QED BY <1>3 DEF MemoriesRight

(* A play that crosses its memory is the first that does not fit.          *)
LEMMA CrossesOnce ==
    ASSUME NEW p \in Seq(ElementSet), NEW o, NEW memory \in Int
    PROVE  LET full == {i \in Loading(p, o) : memory \in Nat /\ Load(p, o, i) > memory}
           IN  /\ full = {} => \A i \in Loading(p, o) : ~Crosses(p, o, memory, i)
               /\ full # {} => \E x \in full : /\ \A y \in full : x <= y
                                               /\ \A i \in Loading(p, o) :
                                                      Crosses(p, o, memory, i) <=> i = x
<1> DEFINE full == {i \in Loading(p, o) : memory \in Nat /\ Load(p, o, i) > memory}
           Over == {n \in Nat : Load(p, o, n) > memory}
<1>1. \A i \in Loading(p, o) : i \in Nat /\ i - 1 \in Nat /\ i >= 1
  BY LoadingTypes
<1>2. Load(p, o, 0) = 0
  <2>1. HeldBy(p, o, 0) = {}
    BY <1>1 DEF HeldBy
  <2> DEFINE W == HeldBy(p, o, 0)
  <2>2. Load(p, o, 0) = SumFunctionOnSet(Sizes(W), DOMAIN Sizes(W))
    BY DEF Load, SumFunction
  <2>3. DOMAIN Sizes(W) = {}
    BY <2>1 DEF Sizes
  <2> HIDE DEF W
  <2>4. SumFunctionOnSet(Sizes(W), DOMAIN Sizes(W)) = SumFunctionOnSet(Sizes(W), {})
    BY <2>3, Zenon
  <2> QED BY <2>2, <2>4, SumEmpty
<1>3. \A n \in Nat : Load(p, o, n) \in Int /\ Load(p, o, n) >= 0
  <2>1. ASSUME NEW n \in Nat PROVE Load(p, o, n) \in Int /\ Load(p, o, n) >= 0
    <3>1. Load(p, o, 0) <= Load(p, o, n)
      BY LoadMonotone
    <3>2. Load(p, o, n) \in Int
      BY LoadStep
    <3> QED BY <1>2, <3>1, <3>2
  <2> QED BY <2>1
<1>4. \A i \in Loading(p, o) : Crosses(p, o, memory, i) => i \in full
  BY <1>1, <1>3 DEF Crosses
<1>5. ASSUME full # {}
      PROVE  \E x \in full : /\ \A y \in full : x <= y
                             /\ \A i \in Loading(p, o) : Crosses(p, o, memory, i) <=> i = x
  <2>1. memory \in Nat /\ full \subseteq Over /\ Over \in SUBSET Nat /\ Over # {}
    BY <1>1, <1>5
  <2> HIDE DEF full
  <2>2. PICK x \in Over : \A y \in Over : x <= y
    BY <2>1, LeastElement
  <2>3. x \in Nat /\ x # 0 /\ Load(p, o, x) > memory
    BY <1>2, <2>1, <2>2
  <2>4. x - 1 \in Nat /\ (x - 1) + 1 = x /\ ~(x <= x - 1)
    BY <2>3
  <2>5. Load(p, o, x - 1) <= memory
    BY <1>3, <2>2, <2>4
  <2>6. x \in Loading(p, o)
    <3> SUFFICES ASSUME x \notin Loading(p, o) PROVE FALSE
      OBVIOUS
    <3>1. Load(p, o, (x - 1) + 1) = Load(p, o, x - 1)
      BY <2>4, LoadStep
    <3> QED BY <1>3, <2>3, <2>4, <2>5, <3>1
  <2>7. x \in full /\ Crosses(p, o, memory, x)
    BY <2>1, <2>3, <2>5, <2>6, AbsentAssumption DEF full, Crosses
  <2>8. ASSUME NEW i \in Loading(p, o), Crosses(p, o, memory, i) PROVE i = x
    <3>1. i \in Over /\ i \in Nat /\ i - 1 \in Nat
      BY <1>1, <1>4, <2>1, <2>8
    <3>2. x <= i
      BY <2>2, <3>1
    <3>3. ASSUME x # i PROVE FALSE
      <4>1. x <= i - 1
        BY <2>3, <3>1, <3>2, <3>3
      <4>2. Load(p, o, x) <= Load(p, o, i - 1)
        BY <2>3, <3>1, <4>1, LoadMonotone
      <4>3. Load(p, o, i - 1) <= memory
        BY <2>8 DEF Crosses
      <4> QED BY <1>3, <2>3, <3>1, <4>2, <4>3
    <3> QED BY <3>3
  <2> HIDE DEF Over
  <2> QED BY <2>1, <2>2, <2>7, <2>8
<1> QED BY <1>4, <1>5

(* Loads of one owner are cited where they cross its memory.               *)
LEMMA OwnerCited ==
    ASSUME EInv, ProgramRead, NEW f \in Frames, ~HasTones(ChannelOf(f))
    PROVE  \A i \in Loading(prog, Owner(f)) :
               /\ Cardinality(Cited("envelope_memory", {i}))
                      = One(Crosses(prog, Owner(f), MemoryOf(f), i))
               /\ ~Crosses(prog, Owner(f), MemoryOf(f), i)
                      => Cited("envelope_memory", {i}) = {}
<1>1. sink \in Seq(Rejected) /\ MemorySaid(prog, sink, Owner(f), MemoryOf(f))
  BY DEF EInv, TInv, HInv, MemoriesRight, MemoryRight, ProgramRead, Loop
<1>2. \A i : /\ Cardinality(Cited("envelope_memory", {i})) = Tally(sink, Blame("envelope_memory", i))
             /\ Tally(sink, Blame("envelope_memory", i)) = 0 => Cited("envelope_memory", {i}) = {}
  BY <1>1, CitedCount
<1> QED BY <1>1, <1>2 DEF MemorySaid, One

(* An envelope is loaded once by each owner of a memory, and a memory that *)
(* overflows is reported exactly once: at the first play that does not fit *)
(* and nowhere else, however many plays follow.                            *)
THEOREM EnvelopeMemoryTheorem == HSpec => []EnvelopeMemoryExact
<1>1. HInit => EInv
  BY InitHInv, InitTones, InitMemory DEF TInv, EInv
<1>2. EInv /\ [HNext]_<< vars, before >> => EInv'
  <2> SUFFICES ASSUME EInv, [HNext]_<< vars, before >> PROVE EInv'
    OBVIOUS
  <2>1. TInv' /\ [Next]_vars
    BY StepTInv DEF EInv, HNext
  <2>2. MemoriesRight'
    <3>1. CASE \E el \in ElementSet : ReadElement(el) /\ ~ToolError
      <4>1. PICK el \in ElementSet : ReadElement(el) /\ ~ToolError
        BY <3>1
      <4>2. \A f \in Frames : ~HasTones(ChannelOf(f)) => MemoryRight(f)'
        BY <4>1, ElementKeepsMemory DEF MemoryRight, LoadedRight, MemorySaid
      <4> QED BY <4>2 DEF MemoriesRight
    <3>2. CASE ~\E el \in ElementSet : ReadElement(el) /\ ~ToolError
      BY <2>1, <3>2, OtherKeepsMemory
    <3> QED BY <3>1, <3>2
  <2> QED BY <2>1, <2>2 DEF EInv
<1>3. ASSUME EInv PROVE EnvelopeMemoryExact
  <2> DEFINE rule == "envelope_memory"
             Full(o) == {i \in Loaders(o) : Memory(i) \in Nat /\ LoadedBy(o, i) > Memory(i)}
  <2> SUFFICES ASSUME ProgramRead, NEW o \in Owners
               PROVE  /\ Cardinality(Cited(rule, Loaders(o))) = IF Full(o) = {} THEN 0 ELSE 1
                      /\ Full(o) # {} => Cited(rule, {Min(Full(o))}) # {}
    BY DEF EnvelopeMemoryExact
  <2> DEFINE L == Loading(prog, o)
             full == Full(o)
  <2>1. prog \in Seq(ElementSet) /\ Bound
    BY <1>3 DEF EInv, TInv, HInv, IInv, Typed, ProgramRead
  <2>2. Loaders(o) = L
    BY DEF Loaders, Loading, LoadsOf, PlaysWaveform
  <2>3. \A i : LoadedBy(o, i) = Load(prog, o, i)
    BY <2>2 DEF LoadedBy, Load, Sizes, HeldBy
  <2>4. Cardinality({}) = 0
    BY FS_EmptySet
  <2>5. \A S : (\A i \in S : Cited(rule, {i}) = {}) => Cited(rule, S) = {}
    BY DEF Cited
  <2>6. CASE L = {}
    <3>1. Full(o) = {} /\ Cited(rule, Loaders(o)) = {}
      BY <2>2, <2>5, <2>6
    <3> HIDE DEF Full
    <3> QED BY <2>4, <3>1
  <2>7. CASE L # {}
    <3>1. PICK l \in L : TRUE
      BY <2>7
    <3> DEFINE f == prog[l].frame
               memory == MemoryOf(f)
    <3>2. f \in Frames /\ ~HasTones(ChannelOf(f)) /\ Owner(f) = o
      BY <2>1, LoadingTypes DEF PlaysWaveform
    <3>3. \A i \in L : Memory(i) = memory
      <4>1. ASSUME NEW i \in L PROVE Memory(i) = memory
        <5>1. prog[i].frame \in Frames /\ Owner(prog[i].frame) = o
          BY <2>1, LoadingTypes
        <5>2. ChannelOf(prog[i].frame) = ChannelOf(f)
          BY <3>2, <5>1, OneOwner
        <5> QED BY <5>2 DEF Memory, MemoryOf
      <4> QED BY <4>1
    <3>4. memory \in Int \cup {Absent}
      BY <2>1, <3>2, FrameChannel, MemoryAssumption DEF MemoryOf, Bound
    <3>5. full = {i \in L : memory \in Nat /\ Load(prog, o, i) > memory}
      BY <2>2, <2>3, <3>3
    <3>6. \A i \in L : /\ Cardinality(Cited(rule, {i})) = One(Crosses(prog, o, memory, i))
                       /\ ~Crosses(prog, o, memory, i) => Cited(rule, {i}) = {}
      BY <1>3, <3>2, OwnerCited
    <3>7. full = {} => \A i \in L : ~Crosses(prog, o, memory, i)
      <4>1. CASE memory = Absent
        BY <4>1 DEF Crosses
      <4>2. CASE memory \in Int
        <5> HIDE DEF memory, full, L
        <5> USE DEF L
        <5> QED BY <2>1, <3>5, <4>2, CrossesOnce
      <4> QED BY <3>4, <4>1, <4>2
    <3>8. ASSUME full # {}
          PROVE  \E x \in full : /\ \A y \in full : x <= y
                                 /\ \A i \in L : Crosses(prog, o, memory, i) <=> i = x
      <4>1. memory \in Int
        BY <3>5, <3>8
      <4> HIDE DEF memory, full, L
      <4> USE DEF L
      <4> QED BY <2>1, <3>5, <3>8, <4>1, CrossesOnce
    <3> HIDE DEF full, L, memory, f
    <3>9. CASE full = {}
      <4>1. Cited(rule, L) = {}
        BY <2>5, <3>6, <3>7, <3>9
      <4>2. Cardinality(Cited(rule, Loaders(o))) = 0
        BY <2>2, <2>4, <4>1
      <4> QED BY <3>9, <4>2 DEF full
    <3>10. CASE full # {}
      <4>1. PICK x \in full : /\ \A y \in full : x <= y
                              /\ \A i \in L : Crosses(prog, o, memory, i) <=> i = x
        BY <3>8, <3>10
      <4>2. full \in SUBSET Int /\ x \in L
        <5>1. full \subseteq L
          BY <3>5
        <5>2. L \subseteq Nat
          BY <2>1, LoadingTypes DEF L
        <5> QED BY <5>1, <5>2
      <4>3. Min(full) = x
        BY <4>1, <4>2, MinIs
      <4>4. Cited(rule, L) = Cited(rule, {x})
        <5>1. \A n : n \in Cited(rule, L) <=> \E i \in L : n \in Cited(rule, {i})
          BY DEF Cited
        <5>2. \A i \in L : i # x => Cited(rule, {i}) = {}
          BY <3>6, <4>1
        <5> QED BY <4>2, <5>1, <5>2
      <4>5. Cardinality(Cited(rule, {x})) = 1
        BY <3>6, <4>1, <4>2 DEF One
      <4>6. Cited(rule, {x}) # {}
        BY <2>4, <4>5
      <4>7. Cardinality(Cited(rule, Loaders(o))) = 1
        BY <2>2, <4>4, <4>5
      <4> QED BY <3>10, <4>3, <4>6, <4>7 DEF full
    <3> QED BY <3>9, <3>10
  <2> QED BY <2>6, <2>7
<1> QED BY <1>1, <1>2, <1>3, PTL DEF HSpec

-----------------------------------------------------------------------------
(* Widths: what check() stores fits, because every sum is refused before   *)
(* it is stored and every other integer it keeps is one it was given.      *)
FrameFits(st) == IntFits(st.clock) /\ RatFits(st.phase)

ResultsFit == \A n \in DOMAIN results : IntFits(results[n].lower) /\ IntFits(results[n].upper)

Described == phase \notin {"start", "tool_error"} => ValidDescriptor

FitInv == IInv /\ CountsRight /\ Described /\ results \in Seq(ResultRecord) /\ WithinWidth

(* Zero fits.                                                              *)
LEMMA ZeroFits == IntFits(0) /\ RatFits(0)
  BY WidthAssumption DEF IntFits, RatFits

(* Where nothing is counted that was not, everything still fits.           *)
LEMMA FitsOn ==
    ASSUME WithinWidth, results' = results, RatFits(programEnd'),
           \A f \in Frames : FrameFits(states'[f]),
           \A o \in Owners : IntFits(envUsed'[o])
    PROVE  WithinWidth'
<1>1. ResultsFit'
  BY DEF WithinWidth, ResultsFit
<1> QED BY <1>1 DEF WithinWidth, ResultsFit, FrameFits

(* An operation of a frame leaves the others as they fit.                  *)
LEMMA OneFrameFits ==
    ASSUME Typed, WithinWidth, NEW f \in Frames, NEW st, FrameFits(st),
           states' = StateAfter(f, st)
    PROVE  \A g \in Frames : FrameFits(states'[g])
<1>1. \A g \in Frames : states'[g] = IF g = f THEN st ELSE states[g]
  BY DEF Typed, StateAfter
<1>2. \A g \in Frames : FrameFits(states[g])
  BY DEF WithinWidth, FrameFits
<1> QED BY <1>1, <1>2

(* The later of two times is one of them.                                  *)
LEMMA LaterFits ==
    ASSUME NEW s, NEW t, RatFits(s), RatFits(t) PROVE RatFits(Later(s, t))
  BY DEF Later

(* Nothing but a shift changes the phase of a frame.                       *)
LEMMA PhaseStays ==
    ASSUME NEW f \in Frames, NEW st \in FrameRecord
    PROVE  /\ Counted(st).phase = st.phase
           /\ [Counted(st) EXCEPT !.nOutputs = @ + 1].phase = st.phase
           /\ FirstUse(f, st).phase = st.phase
           /\ \A e, kind : Noted(f, st, e, kind).phase = st.phase
           /\ \A n : Advanced(f, st, n).phase = st.phase
<1>1. Counted(st).phase = st.phase /\ [Counted(st) EXCEPT !.nOutputs = @ + 1].phase = st.phase
  BY DEF Counted, FrameRecord
<1>2. FirstUse(f, st).phase = st.phase
  BY DEF FirstUse, FrameRecord
<1>3. ASSUME NEW e, NEW kind PROVE Noted(f, st, e, kind).phase = st.phase
  BY DEF Noted, FrameRecord
<1>4. ASSUME NEW n PROVE Advanced(f, st, n).phase = st.phase
  BY DEF Advanced, FrameRecord
<1> QED BY <1>1, <1>2, <1>3, <1>4

(* An output leaves its frame at a clock and a phase that fit.             *)
LEMMA OutputFits ==
    ASSUME FitInv, NEW el \in ElementSet, el.kind \in {"play", "capture"}, NEW kind,
           Reads(el, el.kind), ~OutputRefused(el, kind)
    PROVE  FrameFits(OutputState(el, kind)) /\ RatFits(OutputEnd(el))
<1> DEFINE f  == el.frame
           st == states[f]
           units == DurationUnits(f, el.duration)
           s1 == [Counted(st) EXCEPT !.nOutputs = @ + 1]
           s2 == FirstUse(f, s1)
           s3 == Noted(f, s2, Element, kind)
           s4 == Advanced(f, s3, el.duration)
<1>1. /\ Typed /\ DOMAIN Channels \subseteq DOMAIN Device /\ f \in Frames
      /\ st \in FrameRecord /\ Element \in Nat
  BY Reading DEF FitInv
<1>2. IntFits(st.clock + units)
  BY DEF OutputRefused, AdvanceRefused, ClockFits
<1>3. OutputState(el, kind).clock = st.clock + units
  BY <1>1, OutputStateRecord
<1>4. s1 \in FrameRecord
  <2>1. Counted(st) \in FrameRecord
    BY <1>1, CountedRecord
  <2> QED BY <2>1 DEF FrameRecord
<1>5. s1.phase = st.phase
  BY <1>1, PhaseStays
<1>6. RatFits(st.phase) /\ RatFits(programEnd)
  BY <1>1 DEF FitInv, WithinWidth
<1> HIDE DEF s1
<1>7. s2 \in FrameRecord /\ s2.phase = st.phase
  BY <1>1, <1>4, <1>5, FirstUseRecord, PhaseStays
<1> HIDE DEF s2
<1>8. s3 \in FrameRecord /\ s3.phase = st.phase
  <2>1. s3 \in FrameRecord
    BY <1>1, <1>7, NotedRecord
  <2>2. Noted(f, s2, Element, kind).phase = s2.phase
    BY <1>1, <1>7, PhaseStays
  <2>3. s3.phase = s2.phase
    BY <2>2
  <2> QED BY <1>7, <2>1, <2>3
<1> HIDE DEF s3
<1>9. s4.phase = st.phase
  BY <1>1, <1>8, PhaseStays
<1>10. OutputState(el, kind) = s4
  BY DEF OutputState, s1, s2, s3
<1> HIDE DEF s4
<1>11. FrameFits(OutputState(el, kind))
  BY <1>2, <1>3, <1>6, <1>9, <1>10 DEF FrameFits
<1>12. RatFits(ToTicks(f, st.clock)) /\ RatFits(ToTicks(f, st.clock + units))
  BY DEF OutputRefused, NoteRefused, UnitsFit
<1>13. RatFits(OutputEnd(el))
  BY <1>6, <1>12, LaterFits DEF OutputEnd
<1> QED BY <1>11, <1>13

(* A barrier brings its members to clocks that fit, and no other.          *)
LEMMA BarrierFits ==
    ASSUME FitInv, NEW el \in ElementSet, Barrier(el), ~ToolError PROVE WithinWidth'
<1>1. /\ Typed /\ DOMAIN Channels \subseteq DOMAIN Device /\ ~BarrierRefused(el)
  BY DEF FitInv, IInv, ChannelsBound, Barrier, Reads
<1>2. PICK t \in MemberTimes(el) :
         /\ IsLatest(t, el)
         /\ states' = [f \in Frames |-> IF f \in MemberSet(el) THEN Joined(f, el, t)
                                        ELSE states[f]]
         /\ UNCHANGED << programEnd, envUsed, results >>
  BY <1>1 DEF Barrier, envVars, budgetVars
<1>3. ASSUME NEW f \in Frames PROVE FrameFits(states'[f])
  <2>1. states[f] \in FrameRecord /\ FrameFits(states[f])
    BY <1>1 DEF Typed, FitInv, WithinWidth, FrameFits
  <2>2. CASE f \in MemberSet(el)
    <3>1. IntFits(Aligned(f, t))
      BY <1>1, <1>2, <2>2 DEF BarrierRefused
    <3>2. Joined(f, el, t).clock = Aligned(f, t) /\ Joined(f, el, t).phase = states[f].phase
      BY <2>1 DEF Joined, FrameRecord
    <3>3. states'[f] = Joined(f, el, t)
      BY <1>2, <2>2
    <3> QED BY <2>1, <3>1, <3>2, <3>3 DEF FrameFits
  <2>3. CASE f \notin MemberSet(el)
    BY <1>2, <2>1, <2>3
  <2> QED BY <2>2, <2>3
<1> QED BY <1>2, <1>3, FitsOn DEF FitInv, WithinWidth

(* A delay or an update leaves its frame at a clock and a phase that fit.  *)
LEMMA SilentFits ==
    ASSUME FitInv, NEW el \in ElementSet, ~ToolError,
           ShiftPhase(el) \/ SetFrequency(el) \/ Delay(el)
    PROVE  WithinWidth'
<1> DEFINE f  == el.frame
           st == Counted(states[f])
<1>1. /\ Typed /\ f \in Frames /\ st \in FrameRecord /\ Element \in Nat
      /\ st.clock = states[f].clock /\ states[f] \in FrameRecord
  BY Reading DEF FitInv, ShiftPhase, SetFrequency, Delay
<1>2. st.phase = states[f].phase
  BY <1>1, PhaseStays
<1>3. IntFits(st.clock) /\ RatFits(st.phase) /\ RatFits(programEnd)
      /\ \A o \in Owners : IntFits(envUsed[o])
  BY <1>1, <1>2 DEF FitInv, WithinWidth
<1> HIDE DEF st
<1>4. ASSUME NEW kind
      PROVE  /\ Noted(f, st, Element, kind) \in FrameRecord
             /\ Noted(f, st, Element, kind).clock = st.clock
             /\ Noted(f, st, Element, kind).phase = st.phase
  BY <1>1, NotedRecord, PhaseStays
<1>5. CASE Delay(el)
  <2>1. /\ states' = StateAfter(f, Advanced(f, st, el.duration))
        /\ ClockFits(st, DurationUnits(f, el.duration))
        /\ UNCHANGED << programEnd, envUsed, results >>
    BY <1>5 DEF Delay, AdvanceRefused, envVars, budgetVars, st
  <2>2. Advanced(f, st, el.duration).clock = st.clock + DurationUnits(f, el.duration)
    BY <1>1 DEF Advanced, FrameRecord
  <2>3. FrameFits(Advanced(f, st, el.duration))
    BY <1>1, <1>3, <2>1, <2>2, PhaseStays DEF FrameFits, ClockFits
  <2> QED BY <1>1, <1>3, <2>1, <2>3, OneFrameFits, FitsOn DEF FitInv
<1>6. CASE ShiftPhase(el)
  <2> DEFINE after == [Noted(f, st, Element, "phase") EXCEPT !.phase = @ + el.phase]
  <2>1. /\ states' = StateAfter(f, after)
        /\ RatFits(states[f].phase + el.phase)
        /\ RatFits(ToTicks(f, states[f].clock))
        /\ programEnd' = Later(programEnd, ToTicks(f, st.clock))
        /\ UNCHANGED << envUsed, results >>
    BY <1>6 DEF ShiftPhase, ShiftRefused, NoteRefused, UnitsFit, envVars, budgetVars, st
  <2>2. after.clock = st.clock /\ after.phase = states[f].phase + el.phase
    BY <1>2, <1>4 DEF FrameRecord
  <2> HIDE DEF after
  <2>3. FrameFits(after)
    BY <1>3, <2>1, <2>2 DEF FrameFits
  <2>4. RatFits(programEnd')
    BY <1>1, <1>3, <2>1, LaterFits
  <2> QED BY <1>1, <1>3, <2>1, <2>3, <2>4, OneFrameFits, FitsOn DEF FitInv
<1>7. CASE SetFrequency(el)
  <2> DEFINE after == Retuned(f, Noted(f, st, Element, "frequency"), el.frequency)
  <2>1. /\ states' = StateAfter(f, after)
        /\ RatFits(ToTicks(f, states[f].clock))
        /\ programEnd' = Later(programEnd, ToTicks(f, st.clock))
        /\ UNCHANGED << envUsed, results >>
    BY <1>7 DEF SetFrequency, SetFrequencyRefused, NoteRefused, UnitsFit, envVars, budgetVars, st
  <2>2. after.clock = st.clock /\ after.phase = st.phase
    BY <1>4 DEF FrameRecord, Retuned
  <2> HIDE DEF after
  <2>3. FrameFits(after)
    BY <1>3, <2>2 DEF FrameFits
  <2>4. RatFits(programEnd')
    BY <1>1, <1>3, <2>1, LaterFits
  <2> QED BY <1>1, <1>3, <2>1, <2>3, <2>4, OneFrameFits, FitsOn DEF FitInv
<1> QED BY <1>5, <1>6, <1>7

(* A capture or a play does too, and what it loads is still counted.       *)
LEMMA SoundingFits ==
    ASSUME FitInv, NEW el \in ElementSet, ~ToolError, Capture(el) \/ Play(el)
    PROVE  WithinWidth'
<1> DEFINE f == el.frame
<1>1. /\ Typed /\ f \in Frames /\ Reads(el, el.kind) /\ el.kind \in {"play", "capture"}
      /\ DOMAIN Channels \subseteq DOMAIN Device
  BY Reading DEF FitInv, Capture, Play, Reads
<1>2. \A o \in Owners : IntFits(envUsed[o])
  BY DEF FitInv, WithinWidth
<1>3. CASE Capture(el)
  <2> DEFINE after == OutputState(el, "capture")
             units == DurationUnits(f, el.duration)
             st == IF FixesLength(f, states[f]) THEN [after EXCEPT !.captureLength = units]
                   ELSE after
  <2>1. /\ states' = StateAfter(f, st) /\ ~OutputRefused(el, "capture")
        /\ programEnd' = OutputEnd(el) /\ UNCHANGED << envUsed, results >>
    BY <1>3 DEF Capture, budgetVars
  <2>2. FrameFits(after) /\ RatFits(OutputEnd(el))
    BY <1>1, <2>1, OutputFits
  <2>3. after \in FrameRecord
    BY <1>1, OutputStateRecord
  <2> HIDE DEF after, units
  <2>4. FrameFits(st)
    BY <2>2, <2>3 DEF FrameFits, FrameRecord
  <2> HIDE DEF st
  <2> QED BY <1>1, <1>2, <2>1, <2>2, <2>4, OneFrameFits, FitsOn DEF FitInv
<1>4. ASSUME Play(el), states' = StateAfter(f, OutputState(el, "output")),
             ~OutputRefused(el, "output"), programEnd' = OutputEnd(el), results' = results,
             \A o \in Owners : IntFits(envUsed'[o])
      PROVE  WithinWidth'
  <2>1. FrameFits(OutputState(el, "output")) /\ RatFits(OutputEnd(el))
    BY <1>1, <1>4, OutputFits
  <2> QED BY <1>1, <1>4, <2>1, OneFrameFits, FitsOn DEF FitInv
<1>5. CASE Play(el) /\ PlayTones(el)
  <2>1. /\ states' = StateAfter(f, OutputState(el, "output")) /\ ~OutputRefused(el, "output")
        /\ programEnd' = OutputEnd(el) /\ UNCHANGED << envUsed, results >>
    BY <1>5 DEF PlayTones, budgetVars
  <2> QED BY <1>2, <1>4, <1>5, <2>1
<1>6. CASE Play(el) /\ PlayWaveform(el)
  <2> DEFINE w == el.waveform
             o == Owner(f)
  <2>1. /\ states' = StateAfter(f, OutputState(el, "output")) /\ ~OutputRefused(el, "output")
        /\ programEnd' = OutputEnd(el) /\ results' = results
        /\ ~WaveformRefused(f, w, DurationUnits(f, el.duration))
        /\ envUsed' = IF Loads(f, w) THEN [envUsed EXCEPT ![o] = @ + Samples(w)] ELSE envUsed
    BY <1>6 DEF PlayWaveform, budgetVars
  <2>2. CASE ~Loads(f, w)
    BY <1>2, <1>4, <1>6, <2>1, <2>2
  <2>3. CASE Loads(f, w)
    <3>1. IntFits(envUsed[o] + Samples(w))
      BY <2>1, <2>3 DEF WaveformRefused, Loads
    <3>2. \A p \in Owners : envUsed'[p] = IF p = o THEN envUsed[o] + Samples(w) ELSE envUsed[p]
      BY <1>1, <2>1, <2>3 DEF Typed
    <3> QED BY <1>2, <1>4, <1>6, <2>1, <3>1, <3>2
  <2> QED BY <2>2, <2>3
<1> QED BY <1>3, <1>5, <1>6 DEF Play

(* The bounds of a budget that is counted fit.                             *)
LEMMA BudgetFits ==
    ASSUME Typed, CountsRight, NEW m \in 1 .. Len(Budgets), NEW b, b = Budgets[m],
           ValidBudget(b), ~Skipped(b), ~BudgetRefused(b)
    PROVE  IntFits(BudgetBounds(b).lower) /\ IntFits(BudgetBounds(b).upper)
<1>1. CASE b.id = "wmem_words"
  <2>1. ~b.perFrame
    BY <1>1, BoundsAre
  <2>2. CostFits(b.perItem, Cardinality(wfPlayed), b.overhead)
    BY <1>1, <2>1 DEF BudgetRefused
  <2> QED BY <1>1, <2>2, BoundsAre DEF CostFits, Cost
<1>2. CASE b.id # "wmem_words" /\ b.perFrame
  <2>1. FrameBoundsFit(b)
    BY <1>2 DEF BudgetRefused
  <2>2. Applicable(b) # {}
    BY <1>2 DEF Skipped
  <2>3. /\ \E f \in Applicable(b) : FrameBounds(b).lower = Least(b, f)
        /\ \E f \in Applicable(b) : FrameBounds(b).upper = Most(b, f)
    BY <2>2, FrameBoundsAre
  <2>4. \A f \in Applicable(b) : IntFits(Least(b, f)) /\ IntFits(Most(b, f))
    BY <2>1 DEF FrameBoundsFit, CostFits, Cost, Least, Most
  <2> QED BY <1>2, <2>3, <2>4, BoundsAre
<1>3. CASE b.id # "wmem_words" /\ ~b.perFrame
  <2>1. /\ CostFits(b.perItem, outputs, b.overhead)
        /\ CostFits(b.perItem, 2 * Len(prog), b.overhead)
    BY <1>3 DEF BudgetRefused
  <2> QED BY <1>3, <2>1, BoundsAre DEF CostFits, Cost
<1> QED BY <1>1, <1>2, <1>3

(* Counting a budget adds a result that fits.                              *)
LEMMA CountFits ==
    ASSUME FitInv, CountBudget, ~ToolError
    PROVE  results' \in Seq(ResultRecord) /\ WithinWidth'
<1> DEFINE b   == Budgets[nextBudget]
           new == ResultOf(b)
<1>1. /\ Typed /\ CountsRight /\ results \in Seq(ResultRecord)
      /\ nextBudget \in 1 .. Len(Budgets) /\ ~Skipped(b) /\ ~BudgetRefused(b)
      /\ ValidDescriptor
  BY BudgetAssumption DEF FitInv, Described, IInv, CountBudget, Typed
<1>2. ValidBudget(b)
  BY <1>1, BudgetAssumption DEF ValidDescriptor
<1>3. results' = Append(results, new) /\ UNCHANGED << states, programEnd, envUsed >>
  BY <1>1 DEF CountBudget, ResultOf, progVars, envVars
<1>4. new \in ResultRecord
  BY <1>1, <1>2, ResultIs
<1>5. IntFits(new.lower) /\ IntFits(new.upper)
  <2>1. new.lower = BudgetBounds(b).lower /\ new.upper = BudgetBounds(b).upper
    BY DEF ResultOf
  <2> HIDE DEF new, b
  <2> USE DEF b
  <2> QED BY <1>1, <1>2, <2>1, BudgetFits
<1> HIDE DEF new, b
<1>6. /\ results' \in Seq(ResultRecord) /\ Len(results) \in Nat
      /\ DOMAIN results = 1 .. Len(results) /\ DOMAIN results' = 1 .. Len(results) + 1
      /\ \A n \in 1 .. Len(results) : results'[n] = results[n]
      /\ results'[Len(results) + 1] = new
  BY <1>1, <1>3, <1>4, AppendProperties, LenProperties
<1>7. ResultsFit'
  <2>1. ResultsFit
    BY DEF FitInv, WithinWidth, ResultsFit
  <2>2. ASSUME NEW n \in DOMAIN results'
        PROVE  IntFits(results'[n].lower) /\ IntFits(results'[n].upper)
    <3>1. n \in 1 .. Len(results) \/ n = Len(results) + 1
      BY <1>6
    <3> QED BY <1>5, <1>6, <2>1, <3>1 DEF ResultsFit
  <2> QED BY <2>2 DEF ResultsFit
<1> QED BY <1>3, <1>6, <1>7 DEF FitInv, WithinWidth, ResultsFit

(* The end of the program touches no integer that could outgrow.           *)
LEMMA CloseFits ==
    ASSUME FitInv,
           \/ ToolError \/ Bind \/ EndOfProgram \/ CloseSlots \/ CloseSpacing
           \/ SkipBudget \/ Finish \/ UNCHANGED vars
    PROVE  results' = results /\ WithinWidth'
<1>1. UNCHANGED << programEnd, envUsed, results >>
  BY DEF ToolError, Bind, EndOfProgram, CloseSlots, CloseSpacing, SkipBudget, Finish, vars,
         progVars, envVars, budgetVars
<1>2. ASSUME NEW f \in Frames
      PROVE  states'[f].clock = states[f].clock /\ states'[f].phase = states[f].phase
  <2>1. states[f] \in FrameRecord
    BY DEF FitInv, IInv, Typed
  <2>2. CASE states' = states
    BY <2>2
  <2>3. CASE states' # states
    <3>1. states'[f] = IF SettlesAtEnd(f) THEN [states[f] EXCEPT !.openCapture = Absent]
                       ELSE states[f]
      BY <2>3 DEF ToolError, Bind, EndOfProgram, CloseSlots, CloseSpacing, SkipBudget, Finish,
                  vars, progVars
    <3> QED BY <2>1, <3>1 DEF FrameRecord
  <2> QED BY <2>2, <2>3
<1>3. \A f \in Frames : FrameFits(states'[f])
  BY <1>2 DEF FitInv, WithinWidth, FrameFits
<1> QED BY <1>1, <1>3, FitsOn DEF FitInv, WithinWidth

(* The descriptor was found valid before anything was read.                *)
LEMMA DescribedStep ==
    ASSUME Described, [Next]_vars PROVE Described'
<1>1. CASE phase \in {"start", "tool_error"}
  <2>1. CASE Bind
    BY <2>1 DEF Bind, ToolError, Described
  <2>2. CASE UNCHANGED vars
    BY <1>1, <2>2 DEF vars, Described
  <2>3. Bind \/ UNCHANGED vars
    BY <1>1 DEF Next, ReadElement, Barrier, ShiftPhase, SetFrequency, Delay, Capture, Play,
                Reads, EndOfProgram, CloseSlots, CloseSpacing, SkipBudget, CountBudget, Finish,
                Idle
  <2> QED BY <2>1, <2>2, <2>3
<1>2. CASE phase \notin {"start", "tool_error"}
  BY <1>2 DEF Described, ValidDescriptor
<1> QED BY <1>1, <1>2

(* check() starts within its widths and never leaves them.                 *)
LEMMA InitFits == Init => FitInv
<1> SUFFICES ASSUME Init PROVE FitInv
  OBVIOUS
<1>1. \A f \in Frames : states[f].clock = 0 /\ states[f].phase = FrameDefs[f].phase
  BY DEF Init, InitialState
<1>2. WithinWidth
  <2>1. RatFits(programEnd) /\ \A o \in Owners : IntFits(envUsed[o])
    BY ZeroFits DEF Init
  <2>2. results = << >>
    BY DEF Init
  <2> QED BY <1>1, <2>1, <2>2, ZeroFits, WidthAssumption DEF WithinWidth
<1>3. Described /\ results \in Seq(ResultRecord)
  BY EmptySeq DEF Init, Described
<1> QED BY <1>2, <1>3, InitIInv, InitCountsRight DEF FitInv

LEMMA StepFits == FitInv /\ [Next]_vars => FitInv'
<1> SUFFICES ASSUME FitInv, [Next]_vars PROVE FitInv'
  OBVIOUS
<1>1. IInv' /\ Described'
  BY StepIInv, DescribedStep DEF FitInv
<1>2. CountsRight'
  BY ElementCountsRight, OtherCountsRight DEF FitInv
<1>3. results' \in Seq(ResultRecord) /\ WithinWidth'
  <2>1. CASE \E el \in ElementSet : ReadElement(el) /\ ~ToolError
    <3>1. PICK el \in ElementSet : ReadElement(el) /\ ~ToolError
      BY <2>1
    <3>2. results' = results
      BY <3>1 DEF ReadElement, Barrier, ShiftPhase, SetFrequency, Delay, Capture, Play,
                  PlayWaveform, PlayTones, budgetVars
    <3>3. WithinWidth'
      BY <3>1, BarrierFits, SilentFits, SoundingFits DEF ReadElement
    <3> QED BY <3>2, <3>3 DEF FitInv
  <2>2. CASE CountBudget /\ ~ToolError
    BY <2>2, CountFits
  <2>3. CASE \/ ToolError \/ Bind \/ EndOfProgram \/ CloseSlots \/ CloseSpacing
             \/ SkipBudget \/ Finish \/ UNCHANGED vars
    BY <2>3, CloseFits DEF FitInv
  <2> QED BY <2>1, <2>2, <2>3 DEF Next, Idle
<1> QED BY <1>1, <1>2, <1>3 DEF FitInv

(* Every state of check() is of its type: no clock is negative, whatever   *)
(* durations, delays and barriers the program holds, so the retired rule   *)
(* negative_time has nothing left to report, and no sum or product has     *)
(* outgrown the integer it is kept in.                                     *)
THEOREM TypeCorrect == Spec => []TypeOK
<1>1. FitInv => TypeOK
  BY DEF FitInv, IInv, TypeOK
<1> QED BY InitFits, StepFits, <1>1, PTL DEF Spec
=============================================================================
