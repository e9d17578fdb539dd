---------------------------- MODULE LinkerProofs ----------------------------
(***************************************************************************)
(* Proofs about Linker, for every address space, program and layout.       *)
(***************************************************************************)
EXTENDS Linker, SequenceTheorems, TLAPS

---------------------------------------------------------------------------
(* Arithmetic. *)

(* Rounding up moves forward and reaches a multiple. *)
LEMMA AlignUpProperties ==
  ASSUME NEW x \in Nat, NEW a \in Nat
  PROVE  /\ AlignUp(x, a) \in Nat
         /\ AlignUp(x, a) >= x
         /\ a # 0 => AlignUp(x, a) % a = 0
<1>1. CASE a = 0 \/ x % a = 0
  BY <1>1 DEF AlignUp
<1>2. CASE ~(a = 0 \/ x % a = 0)
  <2> DEFINE q == x \div a
  <2>1. q \in Nat /\ x = (a * q) + (x % a) /\ x % a \in 0 .. a - 1
    BY <1>2
  <2>2. AlignUp(x, a) = (q + 1) * a
    BY <1>2 DEF AlignUp
  <2>3. (q + 1) * a = a * q + a
    BY <2>1
  <2>4. ((q + 1) * a) % a = 0
    BY <2>1, <1>2
  <2> QED
    BY <1>2, <2>1, <2>2, <2>3, <2>4
<1> QED
  BY <1>1, <1>2

(* Removing one element of a sequence: what is left are the other          *)
(* elements, each once.                                                    *)
LEMMA RemoveAtProperties ==
  ASSUME NEW S, NEW q \in Seq(S), NEW i \in DOMAIN q
  PROVE  /\ RemoveAt(q, i) \in Seq(S)
         /\ Len(RemoveAt(q, i)) = Len(q) - 1
         /\ \A j \in DOMAIN RemoveAt(q, i) :
              RemoveAt(q, i)[j] = IF j < i THEN q[j] ELSE q[j + 1]
<1> DEFINE front == SubSeq(q, 1, i - 1)
           rear == SubSeq(q, i + 1, Len(q))
<1>1. i \in 1 .. Len(q) /\ Len(q) \in Nat
  OBVIOUS
<1>2. front \in Seq(S) /\ Len(front) = i - 1 /\ \A j \in 1 .. i - 1 : front[j] = q[j]
  BY <1>1, SubSeqProperties
<1>3. rear \in Seq(S) /\ Len(rear) = Len(q) - i
        /\ \A j \in 1 .. Len(q) - i : rear[j] = q[i + j]
  BY <1>1, SubSeqProperties
<1>4. RemoveAt(q, i) = front \o rear
  BY DEF RemoveAt
<1> HIDE DEF front, rear
<1> QED
  BY <1>1, <1>2, <1>3, <1>4, ConcatProperties, SMTT(30)

---------------------------------------------------------------------------
(* Types.  The inductive invariant adds to TypeOK how far the list of      *)
(* segment bounds has got in each phase.                                   *)

Ordered(q) == \A i \in DOMAIN q : q[i].begin <= q[i].end

Shape ==
  /\ phase = "segment" => Len(segments) = seg - 1
  /\ phase = "fit" => seg <= Len(layout) /\ Len(segments) = seg
  /\ phase \in {"origin", "rom", "done"} => Len(segments) = Len(layout)
  /\ best # <<>> => Len(best) = Len(layout)
  /\ Ordered(segments) /\ Ordered(best)
  /\ phase = "fit" => segments[seg].begin <= ip

Typed == TypeOK /\ Shape

(* The fields of sections and segments. *)
LEMMA InputTypes ==
  ASSUME layout \in Layouts, sections \in Programs
  PROVE  /\ layout \in Seq(Segment(Len(layout))) /\ Len(layout) \in Nat \ {0}
         /\ sections \in Seq(Section(Len(layout)))
         /\ \A i \in 1 .. Len(layout) :
              /\ layout[i].begin \in Nat \cup {None}
              /\ layout[i].minBegin \in Nat \cup {None}
              /\ layout[i].end \in Nat \cup {None, Bloat}
              /\ layout[i].target \in 0 .. Len(layout)
              /\ layout[i].shadow \in 0 .. Len(layout)
         /\ \A s \in DOMAIN sections :
              /\ s \in 1 .. Len(sections)
              /\ sections[s].segment \in 1 .. Len(layout)
              /\ sections[s].size \in Nat
              /\ sections[s].align \in Nat
<1>1. layout \in Seq(Segment(Len(layout))) /\ layout # <<>>
  BY LayoutsAssumption
<1>2. sections \in Seq(Section(Len(layout)))
  BY ProgramsAssumption
<1>3. Len(layout) \in Nat \ {0}
  BY <1>1
<1>4. ASSUME NEW i \in 1 .. Len(layout)
      PROVE  layout[i] \in Segment(Len(layout))
  BY <1>1
<1>5. ASSUME NEW s \in DOMAIN sections
      PROVE  s \in 1 .. Len(sections) /\ sections[s] \in Section(Len(layout))
  BY <1>2
<1> QED
  BY <1>1, <1>2, <1>3, <1>4, <1>5 DEF Segment, Section

Hole == [start : Nat, size : Nat]

(* A gap or a tail that is kept as a hole is not empty. *)
LEMMA NonEmptyProperties ==
  ASSUME NEW x \in Nat, NEW n \in Int
  PROVE  /\ NonEmpty(x, n) \in Seq(Hole)
         /\ Len(NonEmpty(x, n)) \in 0 .. 1
         /\ \A i \in DOMAIN NonEmpty(x, n) :
              NonEmpty(x, n)[i] = [start |-> x, size |-> n] /\ n > 0
<1>1. CASE n > 0
  <2> DEFINE h == [start |-> x, size |-> n]
  <2>1. h \in Hole
    BY <1>1 DEF Hole
  <2>2. NonEmpty(x, n) = <<h>>
    BY <1>1 DEF NonEmpty
  <2> HIDE DEF h
  <2>3. <<h>> \in Seq(Hole) /\ Len(<<h>>) = 1
          /\ DOMAIN <<h>> = 1 .. 1 /\ <<h>>[1] = h
    BY <2>1
  <2> QED
    BY <1>1, <2>2, <2>3 DEF h
<1>2. CASE ~(n > 0)
  BY <1>2 DEF NonEmpty
<1> QED
  BY <1>1, <1>2

(* Where the linker stands when a try begins, when it is over, and when    *)
(* the linker stops.                                                       *)
LEMMA StartTryTypes ==
  ASSUME Typed, StartTry, UNCHANGED <<input, offset, rom>>,
         bisect' \in [size : Nat, lower : Nat, upper : Nat],
         best' \in Seq(Bounds), best' # <<>> => Len(best') = Len(layout),
         Ordered(best')
  PROVE  Typed'
  BY InputTypes DEF Typed, TypeOK, Shape, Ordered, StartTry, input, Phases

LEMMA StartLinkTypes ==
  ASSUME Typed, NEW STATE b, b \in Seq(Bounds),
         Len(b) = Len(layout), Ordered(b), StartLink(b),
         UNCHANGED <<input, offset, rom>>,
         bisect' \in [size : Nat, lower : Nat, upper : Nat],
         best' \in Seq(Bounds), best' # <<>> => Len(best') = Len(layout),
         Ordered(best')
  PROVE  Typed'
<1>1. layout \in Layouts /\ sections \in Programs
  BY DEF Typed, TypeOK
<1>2. Len(layout) \in Nat \ {0}
  BY <1>1, InputTypes
<1>3. /\ layout' = layout /\ sections' = sections /\ fit' = fit
      /\ offset' = offset /\ rom' = rom
      /\ segments' = b /\ phase' = "origin" /\ seg' = 1 /\ ip' = 0
      /\ todo' = todo /\ holes' = holes /\ placed' = placed
  BY DEF StartLink, input
<1>4. TypeOK'
  BY <1>2, <1>3 DEF Typed, TypeOK, Phases
<1>5. Shape'
  BY <1>3 DEF Shape, Ordered
<1> QED
  BY <1>4, <1>5 DEF Typed

LEMMA StopTypes ==
  ASSUME Typed, NEW outcome \in {"failed", "crashed"}, Stop(outcome),
         UNCHANGED <<input, offset, rom>>,
         bisect' \in [size : Nat, lower : Nat, upper : Nat],
         best' \in Seq(Bounds), best' # <<>> => Len(best') = Len(layout),
         Ordered(best')
  PROVE  Typed'
  BY InputTypes DEF Typed, TypeOK, Shape, Stop, input, Phases

LEMMA BisectTypes ==
  ASSUME Typed, UNCHANGED <<input, offset, rom>>,
         NEW STATE size, size \in Nat, NEW STATE lower, lower \in Nat,
         NEW STATE upper, upper \in Nat,
         NEW STATE found, found \in Seq(Bounds), found # <<>> => Len(found) = Len(layout),
         Ordered(found),
         Bisect(size, lower, upper, found)
  PROVE  Typed'
<1>1. /\ bisect' \in [size : Nat, lower : Nat, upper : Nat]
      /\ best' \in Seq(Bounds)
      /\ best' # <<>> => Len(best') = Len(layout)
      /\ Ordered(best')
  BY DEF Bisect
<1>2. CASE StartTry
  BY <1>1, <1>2, StartTryTypes
<1>3. CASE found # <<>> /\ StartLink(found)
  BY <1>1, <1>3, StartLinkTypes
<1>4. CASE Stop("failed")
  BY <1>1, <1>4, StopTypes
<1> QED
  BY <1>2, <1>3, <1>4 DEF Bisect

LEMMA TryFailsTypes ==
  ASSUME Typed, TryFails, UNCHANGED <<input, offset, rom>>
  PROVE  Typed'
<1>1. /\ bisect.size \in Nat /\ bisect.lower \in Nat
      /\ best \in Seq(Bounds)
      /\ best # <<>> => Len(best) = Len(layout)
      /\ Ordered(best)
      /\ bisect \in [size : Nat, lower : Nat, upper : Nat]
  BY DEF Typed, TypeOK, Shape
<1>2. (bisect.size + bisect.lower) \div 2 \in Nat
  BY <1>1
<1>3. CASE HasBloat
  BY <1>1, <1>2, <1>3, BisectTypes DEF TryFails
<1>4. CASE ~HasBloat
  <2>1. Stop("failed") /\ UNCHANGED <<bisect, best>>
    BY <1>4 DEF TryFails
  <2> QED
    BY <1>1, <2>1, StopTypes
<1> QED
  BY <1>3, <1>4

LEMMA TrySucceedsTypes ==
  ASSUME Typed, TrySucceeds, phase = "segment", seg = Len(layout) + 1,
         UNCHANGED <<input, offset, rom>>
  PROVE  Typed'
<1>1. /\ bisect.size \in Nat /\ bisect.upper \in Nat
      /\ best \in Seq(Bounds)
      /\ best # <<>> => Len(best) = Len(layout)
      /\ Ordered(best)
      /\ bisect \in [size : Nat, lower : Nat, upper : Nat]
  BY DEF Typed, TypeOK, Shape
<1>2. (bisect.size + bisect.upper) \div 2 \in Nat
  BY <1>1
<1>3. segments \in Seq(Bounds) /\ Len(segments) = Len(layout) /\ Ordered(segments)
  BY InputTypes DEF Typed, TypeOK, Shape
<1>4. CASE HasBloat
  BY <1>1, <1>2, <1>3, <1>4, BisectTypes DEF TrySucceeds
<1>5. CASE ~HasBloat
  <2>1. StartLink(segments) /\ UNCHANGED <<bisect, best>>
    BY <1>5 DEF TrySucceeds
  <2> QED
    BY <1>1, <1>3, <2>1, StartLinkTypes
<1> QED
  BY <1>4, <1>5

LEMMA InitTypes == Init => Typed
<1> SUFFICES ASSUME Init PROVE Typed
  OBVIOUS
<1>1. Len(layout) \in Nat \ {0}
  BY InputTypes DEF Init
<1>2. AddrSpace \div 2 \in Nat
  BY AddrSpaceAssumption
<1> QED
  BY <1>1, <1>2, AddrSpaceAssumption DEF Init, Typed, TypeOK, Shape, Ordered, Phases, None

LEMMA BeginSegmentTypes == Typed /\ BeginSegment => Typed'
<1> SUFFICES ASSUME Typed, BeginSegment PROVE Typed'
  OBVIOUS
<1>1. layout \in Layouts /\ sections \in Programs
  BY DEF Typed, TypeOK
<1>2. seg \in 1 .. Len(layout) /\ Len(layout) \in Nat \ {0}
  BY <1>1, InputTypes DEF BeginSegment, Typed, TypeOK
<1>3. ip' \in Nat
  BY <1>1, <1>2, InputTypes DEF BeginSegment, Typed, TypeOK, MaxOf
<1>4. segments' = Append(segments, [begin |-> ip', end |-> ip'])
  BY DEF BeginSegment
<1>5. segments' \in Seq(Bounds) /\ Len(segments') = Len(segments) + 1
  BY <1>3, <1>4 DEF Typed, TypeOK, Bounds
<1>6. Len(segments) = seg - 1
  BY DEF Typed, Shape, BeginSegment
<1>7. TypeOK'
  BY <1>2, <1>3, <1>5, <1>6 DEF BeginSegment, Typed, TypeOK, Phases, input
<1>8. Ordered(segments') /\ segments'[seg].begin = ip'
  <2>1. ASSUME NEW k \in DOMAIN segments'
        PROVE  segments'[k].begin <= segments'[k].end
    <3>1. CASE k = seg
      BY <1>3, <1>4, <1>6, <3>1 DEF Typed, TypeOK
    <3>2. CASE k # seg
      <4>1. k \in DOMAIN segments /\ segments'[k] = segments[k]
        BY <1>2, <1>4, <1>5, <1>6, <3>2 DEF Typed, TypeOK
      <4> QED
        BY <4>1 DEF Typed, Shape, Ordered
    <3> QED
      BY <3>1, <3>2
  <2>2. segments'[seg] = [begin |-> ip', end |-> ip']
    BY <1>4, <1>6 DEF Typed, TypeOK
  <2> QED
    BY <2>1, <2>2 DEF Ordered
<1>9. Shape'
  BY <1>2, <1>3, <1>5, <1>6, <1>8 DEF BeginSegment, Typed, Shape, input
<1> QED
  BY <1>7, <1>9 DEF Typed

(* Placing a section at an address keeps the types of what Place changes.  *)
LEMMA PlaceTypes ==
  ASSUME Typed, NEW s \in todo, NEW STATE x, x \in Nat, Place(s, x)
  PROVE  /\ s \in DOMAIN sections
         /\ offset' \in [DOMAIN sections -> Nat \cup {None}]
         /\ offset'[s] = x
         /\ \A t \in DOMAIN sections \ {s} : offset'[t] = offset[t]
         /\ todo' \subseteq DOMAIN sections
         /\ placed' \subseteq DOMAIN sections
         /\ placed' = placed \cup {s}
         /\ \A t \in placed' : offset'[t] # None
         /\ layout' = layout /\ sections' = sections /\ fit' = fit
         /\ seg' = seg /\ segments' = segments /\ bisect' = bisect
         /\ best' = best /\ rom' = rom
<1>1. s \in DOMAIN sections /\ x # None
  BY DEF Typed, TypeOK, None
<1> QED
  BY <1>1 DEF Place, Typed, TypeOK, input

LEMMA PlaceInHoleTypes == Typed /\ PlaceInHole => Typed'
<1> SUFFICES ASSUME Typed, PlaceInHole PROVE Typed'
  OBVIOUS
<1>0. layout \in Layouts /\ sections \in Programs /\ phase = "fit"
        /\ phase' = phase /\ ip' = ip
  BY DEF Typed, TypeOK, PlaceInHole
<1>1. PICK s \in todo, i \in DOMAIN holes :
        /\ IsFirstHole(i, s)
        /\ Place(s, AlignUp(holes[i].start, sections[s].align))
        /\ holes' = RemoveAt(holes, i) \o Leftover(holes[i], s)
  BY DEF PlaceInHole
<1>2. s \in DOMAIN sections /\ sections[s].align \in Nat /\ sections[s].size \in Nat
  BY <1>0, InputTypes DEF Typed, TypeOK
<1>3. holes[i].start \in Nat /\ holes[i].size \in Nat
  <2>1. holes \in Seq([start : Nat, size : Nat])
    BY DEF Typed, TypeOK
  <2>2. i \in 1 .. Len(holes)
    BY <2>1
  <2>3. holes[i] \in [start : Nat, size : Nat]
    BY <2>1, <2>2, ElementOfSeq
  <2> QED
    BY <2>3
<1> DEFINE x == AlignUp(holes[i].start, sections[s].align)
<1>4. x \in Nat /\ x >= holes[i].start
  BY <1>2, <1>3, AlignUpProperties
<1>5. Gap(holes[i].start, s) = x - holes[i].start
  BY DEF Gap
<1>6. Place(s, x)
  BY <1>1
<1> HIDE DEF x
<1>7. Leftover(holes[i], s) \in Seq(Hole)
  <2>1. holes[i].start + Gap(holes[i].start, s) + sections[s].size \in Nat
          /\ Gap(holes[i].start, s) \in Int
          /\ holes[i].size - Gap(holes[i].start, s) - sections[s].size \in Int
    BY <1>2, <1>3, <1>4, <1>5
  <2> QED
    BY <1>3, <2>1, NonEmptyProperties, ConcatProperties DEF Leftover
<1>8. holes' \in Seq(Hole)
  BY <1>1, <1>7, RemoveAtProperties, ConcatProperties DEF Typed, TypeOK, Hole
<1>9. TypeOK'
  BY <1>0, <1>4, <1>6, <1>8, PlaceTypes DEF Typed, TypeOK, Hole
<1>10. Shape'
  BY <1>0, <1>4, <1>6, PlaceTypes DEF Typed, Shape
<1> QED
  BY <1>9, <1>10 DEF Typed

LEMMA PlaceAtEndTypes == Typed /\ PlaceAtEnd => Typed'
<1> SUFFICES ASSUME Typed, PlaceAtEnd PROVE Typed'
  OBVIOUS
<1>0. /\ layout \in Layouts /\ sections \in Programs /\ phase = "fit"
      /\ phase' \in {"crashed", "fit"} /\ ip \in Nat
  BY DEF Typed, TypeOK, PlaceAtEnd
<1>1. PICK s \in todo :
        /\ Place(s, AlignUp(ip, sections[s].align))
        /\ holes' = IF fit = "fill" THEN holes \o NonEmpty(ip, Gap(ip, s)) ELSE holes
        /\ ip' = AlignUp(ip, sections[s].align) + sections[s].size
  BY DEF PlaceAtEnd
<1>2. s \in DOMAIN sections /\ sections[s].align \in Nat /\ sections[s].size \in Nat
  BY <1>0, InputTypes DEF Typed, TypeOK
<1> DEFINE x == AlignUp(ip, sections[s].align)
<1>3. x \in Nat /\ x >= ip /\ ip' = x + sections[s].size /\ Gap(ip, s) = x - ip
  BY <1>0, <1>1, <1>2, AlignUpProperties DEF Gap
<1>4. Place(s, x)
  BY <1>1
<1> HIDE DEF x
<1>5. holes' \in Seq(Hole)
  BY <1>0, <1>1, <1>3, NonEmptyProperties, ConcatProperties DEF Typed, TypeOK, Hole
<1>6. ip' \in Nat
  BY <1>2, <1>3
<1>7. TypeOK'
  BY <1>0, <1>3, <1>4, <1>5, <1>6, PlaceTypes DEF Typed, TypeOK, Phases, Hole
<1>8. Shape'
  <2>1. segments[seg].begin \in Nat
    <3>1. seg \in 1 .. Len(segments) /\ segments \in Seq(Bounds)
      BY <1>0, InputTypes DEF Typed, TypeOK, Shape
    <3>2. segments[seg] \in Bounds
      BY <3>1, ElementOfSeq
    <3> QED
      BY <3>2 DEF Bounds
  <2>2. segments[seg].begin <= ip'
    BY <1>0, <1>2, <1>3, <2>1 DEF Typed, Shape
  <2>3. phase' # "segment" /\ phase' \notin {"origin", "rom", "done"}
    BY <1>0
  <2>4. /\ layout' = layout /\ segments' = segments /\ seg' = seg /\ best' = best
    BY <1>3, <1>4, PlaceTypes
  <2> QED
    BY <1>0, <2>2, <2>3, <2>4 DEF Typed, Shape
<1> QED
  BY <1>7, <1>8 DEF Typed

LEMMA EndSegmentTypes == Typed /\ EndSegment => Typed'
<1> SUFFICES ASSUME Typed, EndSegment PROVE Typed'
  OBVIOUS
<1>1. layout \in Layouts /\ sections \in Programs
  BY DEF Typed, TypeOK
<1>2. /\ seg \in 1 .. Len(layout) /\ Len(layout) \in Nat \ {0}
      /\ Len(segments) = seg
      /\ layout[seg].end \in Nat \cup {None, Bloat}
  BY <1>1, InputTypes DEF EndSegment, Typed, TypeOK, Shape
<1>3. ip' \in Nat
  BY <1>2 DEF EndSegment, Typed, TypeOK
<1>4. segments[seg] \in Bounds
  BY <1>2 DEF Typed, TypeOK
<1>5. [begin |-> segments[seg].begin, end |-> ip'] \in Bounds
  BY <1>3, <1>4 DEF Bounds
<1>6. segments' \in Seq(Bounds) /\ Len(segments') = Len(segments)
  BY <1>2, <1>5 DEF EndSegment, Typed, TypeOK
<1>7. TypeOK'
  BY <1>2, <1>3, <1>6 DEF EndSegment, Typed, TypeOK, Phases, input
<1>8. segments[seg].begin <= ip'
  <2>1. segments[seg].begin \in Nat /\ ip \in Nat /\ bisect.size \in Nat
    BY <1>4 DEF Typed, TypeOK, Bounds
  <2>2. segments[seg].begin <= ip
    BY DEF EndSegment, Typed, Shape
  <2> QED
    BY <1>2, <2>1, <2>2 DEF EndSegment, MayEnd
<1>9. Ordered(segments')
  <2> SUFFICES ASSUME NEW k \in DOMAIN segments'
               PROVE  segments'[k].begin <= segments'[k].end
    BY DEF Ordered
  <2>1. k \in DOMAIN segments
          /\ segments'[k] = IF k = seg THEN [begin |-> segments[seg].begin, end |-> ip']
                            ELSE segments[k]
    BY <1>2 DEF EndSegment, Typed, TypeOK
  <2> QED
    BY <1>8, <2>1 DEF Typed, Shape, Ordered
<1>10. Shape'
  BY <1>2, <1>6, <1>9 DEF EndSegment, Typed, Shape, input
<1> QED
  BY <1>7, <1>10 DEF Typed

LEMMA LinkSegmentTypes == Typed /\ LinkSegment => Typed'
<1> SUFFICES ASSUME Typed, LinkSegment PROVE Typed'
  OBVIOUS
<1>1. layout \in Layouts /\ sections \in Programs
  BY DEF Typed, TypeOK
<1>2. /\ seg \in 1 .. Len(layout) /\ Len(layout) \in Nat \ {0}
      /\ Len(segments) = Len(layout)
      /\ layout[seg].target \in 0 .. Len(layout)
  BY <1>1, InputTypes DEF LinkSegment, Typed, TypeOK, Shape
<1> DEFINE begin == IF IsOrigin(seg) THEN ip ELSE segments[seg].begin
           end == IF IsOrigin(seg) THEN begin + SizeOf(layout[seg].target)
                  ELSE segments[seg].end
<1>3. /\ segments' = [segments EXCEPT ![seg] = [begin |-> begin, end |-> end]]
      /\ ip' = end
  <2>1. LinkedBounds = [begin |-> begin, end |-> end]
    <3>1. segments[seg] \in Bounds
      BY <1>2 DEF Typed, TypeOK
    <3> QED
      BY <3>1 DEF LinkedBounds, Bounds
  <2> QED
    BY <2>1 DEF LinkSegment
<1>4. begin \in Nat /\ end \in Nat
  <2>1. segments[seg] \in Bounds /\ ip \in Nat
    BY <1>2 DEF Typed, TypeOK
  <2>2. ASSUME layout[seg].target # 0
        PROVE  SizeOf(layout[seg].target) \in Nat
    <3>1. layout[seg].target \in DOMAIN segments
      BY <1>2, <2>2 DEF Typed, TypeOK
    <3>2. segments[layout[seg].target] \in Bounds
      BY <3>1 DEF Typed, TypeOK
    <3> QED
      BY <3>1, <3>2 DEF SizeOf, Bounds, Typed, Shape, Ordered
  <2> QED
    BY <2>1, <2>2 DEF IsOrigin, Bounds
<1>5. begin <= end
  <2>1. CASE IsOrigin(seg)
    <3>1. layout[seg].target \in DOMAIN segments
      BY <1>2, <2>1 DEF Typed, TypeOK, IsOrigin
    <3>2. segments[layout[seg].target] \in Bounds
      BY <3>1 DEF Typed, TypeOK
    <3>3. SizeOf(layout[seg].target) >= 0
      BY <3>1, <3>2 DEF SizeOf, Bounds, Typed, Shape, Ordered
    <3>4. SizeOf(layout[seg].target) \in Int /\ ip \in Nat
      BY <3>2, SMTT(30) DEF SizeOf, Bounds, Typed, TypeOK
    <3> QED
      BY <2>1, <3>3, <3>4
  <2>2. CASE ~IsOrigin(seg)
    BY <1>2, <2>2 DEF Typed, TypeOK, Shape, Ordered
  <2> QED
    BY <2>1, <2>2
<1> HIDE DEF begin, end
<1>6. [begin |-> begin, end |-> end] \in Bounds
  BY <1>4 DEF Bounds
<1>7. segments' \in Seq(Bounds) /\ Len(segments') = Len(segments)
        /\ DOMAIN segments' = DOMAIN segments
  BY <1>2, <1>3, <1>6 DEF Typed, TypeOK
<1>8. TypeOK'
  BY <1>2, <1>3, <1>4, <1>7 DEF LinkSegment, Typed, TypeOK, Phases, input
<1>9. Ordered(segments')
  <2> SUFFICES ASSUME NEW k \in DOMAIN segments'
               PROVE  segments'[k].begin <= segments'[k].end
    BY DEF Ordered
  <2>1. k \in DOMAIN segments
          /\ segments'[k] = IF k = seg THEN [begin |-> begin, end |-> end]
                            ELSE segments[k]
    BY <1>2, <1>3, <1>7 DEF Typed, TypeOK
  <2> QED
    BY <1>5, <2>1 DEF Typed, Shape, Ordered
<1>10. Shape'
  BY <1>2, <1>7, <1>9 DEF LinkSegment, Typed, Shape, input
<1> QED
  BY <1>8, <1>10 DEF Typed

LEMMA CopySectionTypes == Typed /\ CopySection => Typed'
<1> SUFFICES ASSUME Typed, CopySection PROVE Typed'
  OBVIOUS
<1>1. /\ todo' \subseteq DOMAIN sections
      /\ DOMAIN rom' = DOMAIN rom
      /\ phase' \in {"rom", "crashed"}
      /\ phase = "rom"
      /\ UNCHANGED <<input, seg, ip, holes, offset, placed, segments, bisect, best>>
  BY DEF CopySection, Typed, TypeOK
<1>2. TypeOK'
  BY <1>1 DEF Typed, TypeOK, Phases, input
<1>3. Shape'
  BY <1>1 DEF Typed, Shape, input
<1> QED
  BY <1>2, <1>3 DEF Typed

(* Every step of the linker keeps the types. *)
LEMMA NextTypes == Typed /\ [Next]_vars => Typed'
<1> SUFFICES ASSUME Typed, [Next]_vars PROVE Typed'
  OBVIOUS
<1>1. CASE SegmentOverflow
  BY <1>1, TryFailsTypes DEF SegmentOverflow
<1>2. CASE BeginSegment
  BY <1>2, BeginSegmentTypes
<1>3. CASE PlaceInHole
  BY <1>3, PlaceInHoleTypes
<1>4. CASE PlaceAtEnd
  BY <1>4, PlaceAtEndTypes
<1>5. CASE EndOverflow
  BY <1>5, TryFailsTypes DEF EndOverflow
<1>6. CASE EndSegment
  BY <1>6, EndSegmentTypes
<1>7. CASE EndTry
  BY <1>7, TrySucceedsTypes DEF EndTry
<1>8. CASE LinkFails
  <2>1. bisect' = bisect /\ best' = best /\ Stop("failed")
          /\ UNCHANGED <<input, offset, rom>>
    BY <1>8 DEF LinkFails
  <2>2. /\ bisect' \in [size : Nat, lower : Nat, upper : Nat]
        /\ best' \in Seq(Bounds)
        /\ best' # <<>> => Len(best') = Len(layout)
        /\ Ordered(best')
    BY <2>1 DEF Typed, TypeOK, Shape
  <2> QED
    BY <2>1, <2>2, StopTypes
<1>9. CASE LinkSegment
  BY <1>9, LinkSegmentTypes
<1>10. CASE StartRom
  BY <1>10, InputTypes DEF StartRom, Typed, TypeOK, Shape, Phases, input
<1>11. CASE CopySection
  BY <1>11, CopySectionTypes
<1>12. CASE Finish
  BY <1>12 DEF Finish, Typed, TypeOK, Shape, Phases, input
<1>13. CASE UNCHANGED vars
  BY <1>13 DEF vars, Typed, TypeOK, Shape
<1> QED
  BY <1>1, <1>2, <1>3, <1>4, <1>5, <1>6, <1>7, <1>8, <1>9, <1>10, <1>11,
     <1>12, <1>13 DEF Next

(* The types hold in every run, and the bounds of every segment laid out   *)
(* are in order (tryFitSections).                                          *)
THEOREM TypeCorrect == Spec => []TypeOK
<1>1. Typed => TypeOK
  BY DEF Typed
<1> QED
  BY <1>1, InitTypes, NextTypes, PTL DEF Spec

---------------------------------------------------------------------------
(* The sections placed in a try share no byte, whatever holes they fill.   *)
(* The inductive invariant: sections and holes are pairwise apart and lie  *)
(* below the next free address.                                            *)

Below ==
  phase \in {"segment", "fit"} =>
    /\ \A s \in placed : offset[s] + sections[s].size <= ip
    /\ \A i \in DOMAIN holes : holes[i].start + holes[i].size <= ip

Tiling == Below /\ PlacedApart /\ HolesFree

(* The holes left of a hole are parts of it, apart from each other and     *)
(* from the section placed there.                                          *)
LEMMA LeftoverProperties ==
  ASSUME NEW h \in Hole, NEW s,
         sections[s].size \in Nat, sections[s].align \in Nat, Holds(h, s)
  PROVE  LET x == AlignUp(h.start, sections[s].align)
             r == Leftover(h, s)
         IN  /\ x \in Nat /\ h.start <= x
             /\ x + sections[s].size <= h.start + h.size
             /\ r \in Seq(Hole)
             /\ \A j \in DOMAIN r :
                  /\ h.start <= r[j].start
                  /\ r[j].start + r[j].size <= h.start + h.size
                  /\ Apart(r[j].start, r[j].size, x, sections[s].size)
                  /\ \A k \in DOMAIN r \ {j} :
                       Apart(r[j].start, r[j].size, r[k].start, r[k].size)
<1> DEFINE x == AlignUp(h.start, sections[s].align)
           n == sections[s].size
           gap == x - h.start
           front == NonEmpty(h.start, gap)
           rear == NonEmpty(h.start + gap + n, h.size - gap - n)
           r == Leftover(h, s)
<1>1. h.start \in Nat /\ h.size \in Nat
  BY DEF Hole
<1>2. x \in Nat /\ h.start <= x
  BY <1>1, AlignUpProperties
<1>3. Gap(h.start, s) = gap
  BY DEF Gap
<1>4. n + gap <= h.size
  BY <1>3 DEF Holds
<1>5. r = front \o rear
  BY <1>3 DEF Leftover
<1> HIDE DEF x
<1>6. gap \in Nat /\ h.start + gap + n = x + n /\ h.size - gap - n \in Nat
  BY <1>1, <1>2, <1>4
<1>7. /\ front \in Seq(Hole) /\ Len(front) \in 0 .. 1
      /\ \A j \in DOMAIN front : front[j] = [start |-> h.start, size |-> gap]
  <2>1. gap \in Int
    BY <1>6
  <2> HIDE DEF gap
  <2> QED
    BY <1>1, <2>1, NonEmptyProperties DEF front
<1>8. /\ rear \in Seq(Hole) /\ Len(rear) \in 0 .. 1
      /\ \A j \in DOMAIN rear :
           rear[j] = [start |-> x + n, size |-> h.size - gap - n]
  <2> DEFINE b == x + n
             m == h.size - gap - n
  <2>1. b \in Nat /\ m \in Int
    BY <1>2, <1>6
  <2>2. rear = NonEmpty(b, m)
    BY <1>6 DEF rear
  <2> HIDE DEF b, m, rear
  <2>3. /\ rear \in Seq(Hole) /\ Len(rear) \in 0 .. 1
        /\ \A j \in DOMAIN rear : rear[j] = [start |-> b, size |-> m]
    BY <2>1, <2>2, NonEmptyProperties
  <2> QED
    BY <2>3 DEF b, m
<1> HIDE DEF front, rear, r
<1>9. /\ r \in Seq(Hole) /\ Len(r) = Len(front) + Len(rear)
      /\ \A j \in 1 .. Len(front) : r[j] = front[j]
      /\ \A j \in Len(front) + 1 .. Len(front) + Len(rear) :
           r[j] = rear[j - Len(front)]
  BY <1>5, <1>7, <1>8, ConcatProperties
<1>10. ASSUME NEW j \in DOMAIN r
       PROVE  \/ /\ r[j].start = h.start /\ r[j].size = gap
                 /\ j = 1 /\ Len(front) = 1
              \/ /\ r[j].start = x + n /\ r[j].size = h.size - gap - n
                 /\ j = Len(front) + 1
  <2>1. j \in 1 .. Len(front) + Len(rear)
    BY <1>9
  <2>2. CASE j \in 1 .. Len(front)
    <3>1. j \in DOMAIN front /\ j = 1 /\ Len(front) = 1
      BY <1>7, <2>2
    <3>2. r[j] = [start |-> h.start, size |-> gap]
      BY <1>7, <1>9, <2>2, <3>1
    <3>3. r[j].start = h.start /\ r[j].size = gap
      BY <3>2
    <3> QED
      BY <3>1, <3>3
  <2>3. CASE j \in Len(front) + 1 .. Len(front) + Len(rear)
    <3>1. j - Len(front) = 1 /\ Len(rear) = 1 /\ 1 \in DOMAIN rear
      BY <1>7, <1>8, <2>3
    <3>2. r[j] = [start |-> x + n, size |-> h.size - gap - n]
      BY <1>8, <1>9, <2>3, <3>1
    <3>3. r[j].start = x + n /\ r[j].size = h.size - gap - n
      BY <3>2
    <3>4. j = Len(front) + 1
      BY <1>7, <2>3, <3>1
    <3> QED
      BY <3>3, <3>4
  <2> QED
    BY <1>7, <1>8, <2>1, <2>2, <2>3
<1>11. ASSUME NEW j \in DOMAIN r
       PROVE  /\ h.start <= r[j].start
              /\ r[j].start + r[j].size <= h.start + h.size
              /\ Apart(r[j].start, r[j].size, x, n)
  <2>1. CASE r[j].start = h.start /\ r[j].size = gap
    BY <1>1, <1>2, <1>6, <2>1 DEF Apart
  <2>2. CASE r[j].start = x + n /\ r[j].size = h.size - gap - n
    BY <1>1, <1>2, <1>6, <2>2 DEF Apart
  <2> QED
    BY <1>10, <2>1, <2>2
<1>12. ASSUME NEW j \in DOMAIN r, NEW k \in DOMAIN r \ {j}
       PROVE  Apart(r[j].start, r[j].size, r[k].start, r[k].size)
  <2>1. k \in DOMAIN r /\ k # j
    OBVIOUS
  <2>2. \/ r[j].start = h.start /\ r[j].size = gap /\ r[k].start = x + n
        \/ r[k].start = h.start /\ r[k].size = gap /\ r[j].start = x + n
    BY <1>7, <1>10, <2>1
  <2> QED
    BY <1>1, <1>2, <1>6, <2>2 DEF Apart
<1>13. x + n <= h.start + h.size
  BY <1>1, <1>2, <1>4
<1> QED
  BY <1>2, <1>9, <1>11, <1>12, <1>13 DEF x, r

(* What the types say of one hole and of one placed section. *)
LEMMA HoleTypes ==
  ASSUME Typed, NEW i \in DOMAIN holes
  PROVE  holes[i] \in Hole /\ holes[i].start \in Nat /\ holes[i].size \in Nat
<1>1. holes \in Seq(Hole) /\ i \in 1 .. Len(holes)
  BY DEF Typed, TypeOK, Hole
<1>2. holes[i] \in Hole
  BY <1>1, ElementOfSeq
<1> QED
  BY <1>2 DEF Hole

LEMMA SectionTypes ==
  ASSUME Typed, NEW s \in DOMAIN sections
  PROVE  /\ sections[s].size \in Nat /\ sections[s].align \in Nat
         /\ s \in placed => offset[s] \in Nat
<1>1. layout \in Layouts /\ sections \in Programs
  BY DEF Typed, TypeOK
<1>2. s \in placed => offset[s] \in Nat
  BY DEF Typed, TypeOK
<1> QED
  BY <1>1, <1>2, InputTypes

LEMMA PlaceInHoleTiling == Typed /\ Tiling /\ PlaceInHole => Tiling'
<1> SUFFICES ASSUME Typed, Tiling, PlaceInHole PROVE Tiling'
  OBVIOUS
<1>0. phase = "fit" /\ phase' = "fit" /\ ip' = ip /\ ip \in Nat
  BY DEF PlaceInHole, Typed, TypeOK
<1>1. PICK s \in todo, i \in DOMAIN holes :
        /\ Holds(holes[i], s)
        /\ Place(s, AlignUp(holes[i].start, sections[s].align))
        /\ holes' = RemoveAt(holes, i) \o Leftover(holes[i], s)
  BY DEF PlaceInHole, IsFirstHole
<1> DEFINE h == holes[i]
           x == AlignUp(h.start, sections[s].align)
           n == sections[s].size
           kept == RemoveAt(holes, i)
           r == Leftover(h, s)
<1>2. s \in DOMAIN sections /\ n \in Nat /\ sections[s].align \in Nat
  BY SectionTypes DEF Typed, TypeOK
<1>3. h \in Hole /\ h.start \in Nat /\ h.size \in Nat
  BY HoleTypes
<1>4. /\ x \in Nat /\ h.start <= x /\ x + n <= h.start + h.size
      /\ r \in Seq(Hole)
      /\ \A j \in DOMAIN r :
           /\ h.start <= r[j].start
           /\ r[j].start + r[j].size <= h.start + h.size
           /\ Apart(r[j].start, r[j].size, x, n)
           /\ \A k \in DOMAIN r \ {j} :
                Apart(r[j].start, r[j].size, r[k].start, r[k].size)
  BY <1>1, <1>2, <1>3, LeftoverProperties
<1>5. holes \in Seq(Hole) /\ i \in DOMAIN holes
  BY DEF Typed, TypeOK, Hole
<1>6. /\ kept \in Seq(Hole) /\ Len(kept) = Len(holes) - 1
      /\ \A j \in DOMAIN kept :
           kept[j] = IF j < i THEN holes[j] ELSE holes[j + 1]
  BY <1>5, RemoveAtProperties
<1>7. Place(s, x) /\ holes' = kept \o r
  BY <1>1
<1> HIDE DEF x, kept, r, h, n
<1>8. /\ placed' = placed \cup {s} /\ sections' = sections
      /\ offset'[s] = x
      /\ \A t \in DOMAIN sections \ {s} : offset'[t] = offset[t]
  BY <1>4, <1>7, PlaceTypes
<1>9. s \notin placed \/ s \in placed
  OBVIOUS
<1>10. /\ holes' \in Seq(Hole) /\ Len(holes') = Len(kept) + Len(r)
       /\ \A j \in 1 .. Len(kept) : holes'[j] = kept[j]
       /\ \A j \in Len(kept) + 1 .. Len(kept) + Len(r) :
            holes'[j] = r[j - Len(kept)]
  <2>1. kept \in Seq(Hole) /\ r \in Seq(Hole)
    BY <1>4, <1>6
  <2>2. /\ kept \o r \in Seq(Hole) /\ Len(kept \o r) = Len(kept) + Len(r)
        /\ \A j \in 1 .. Len(kept) + Len(r) :
             (kept \o r)[j] = IF j <= Len(kept) THEN kept[j] ELSE r[j - Len(kept)]
    BY <2>1, ConcatProperties
  <2>3. Len(kept) \in Nat /\ Len(r) \in Nat
    BY <2>1
  <2> QED
    BY <1>7, <2>2, <2>3
(* Every hole that is left is one of the others, or part of the one filled. *)
<1> DEFINE Old(j) == IF j < i THEN j ELSE j + 1
<1>11. ASSUME NEW j \in DOMAIN holes'
       PROVE  \/ /\ j \in 1 .. Len(kept)
                 /\ Old(j) \in DOMAIN holes \ {i}
                 /\ holes'[j] = holes[Old(j)]
              \/ /\ j \notin 1 .. Len(kept)
                 /\ j - Len(kept) \in DOMAIN r
                 /\ holes'[j] = r[j - Len(kept)]
  <2>1. j \in 1 .. Len(kept) + Len(r) /\ Len(kept) \in Nat /\ Len(r) \in Nat
    BY <1>4, <1>6, <1>10
  <2>2. i \in 1 .. Len(holes) /\ Len(holes) \in Nat
    BY <1>5
  <2>3. CASE j \in 1 .. Len(kept)
    <3>1. j \in DOMAIN kept /\ holes'[j] = kept[j]
      <4>1. DOMAIN kept = 1 .. Len(kept)
        BY <1>6
      <4> QED
        BY <1>10, <2>3, <4>1
    <3>2. Old(j) \in DOMAIN holes \ {i}
      BY <1>6, <2>2, <2>3, <1>5
    <3> QED
      BY <1>6, <2>3, <3>1, <3>2
  <2>4. CASE j \notin 1 .. Len(kept)
    <3>1. j \in Len(kept) + 1 .. Len(kept) + Len(r)
      BY <2>1, <2>4
    <3>2. j - Len(kept) \in DOMAIN r
      BY <1>4, <2>1, <3>1
    <3> QED
      BY <1>10, <2>4, <3>1, <3>2
  <2> QED
    BY <2>3, <2>4
<1>12. ASSUME NEW k \in DOMAIN holes \ {i}
       PROVE  /\ holes[k].start \in Nat /\ holes[k].size \in Nat
              /\ Apart(h.start, h.size, holes[k].start, holes[k].size)
  BY HoleTypes DEF Tiling, HolesFree, h
<1>13. ASSUME NEW j \in DOMAIN r
       PROVE  r[j].start \in Nat /\ r[j].size \in Nat
  <2>1. j \in 1 .. Len(r)
    BY <1>4
  <2>2. r[j] \in Hole
    BY <1>4, <2>1, ElementOfSeq
  <2> QED
    BY <2>2 DEF Hole
<1>14. ASSUME NEW t \in placed
       PROVE  /\ t \in DOMAIN sections /\ offset[t] \in Nat
              /\ sections[t].size \in Nat
              /\ Apart(h.start, h.size, offset[t], sections[t].size)
  <2>1. t \in DOMAIN sections
    BY DEF Typed, TypeOK
  <2> QED
    BY <2>1, SectionTypes DEF Tiling, HolesFree, h
<1>15. h.start + h.size <= ip
  BY <1>0 DEF Tiling, Below, h
<1>16. ASSUME NEW j \in DOMAIN holes'
       PROVE  /\ holes'[j].start \in Nat /\ holes'[j].size \in Nat
              /\ holes'[j].start + holes'[j].size <= ip
              /\ Apart(holes'[j].start, holes'[j].size, x, n)
              /\ \A t \in placed :
                   Apart(holes'[j].start, holes'[j].size,
                         offset[t], sections[t].size)
  <2>1. CASE j \in 1 .. Len(kept)
    <3>1. Old(j) \in DOMAIN holes \ {i} /\ holes'[j] = holes[Old(j)]
      BY <1>11, <2>1
    <3> HIDE DEF Old
    <3>2. /\ holes[Old(j)].start \in Nat /\ holes[Old(j)].size \in Nat
          /\ Apart(h.start, h.size, holes[Old(j)].start, holes[Old(j)].size)
      BY <1>12, <3>1
    <3>3. Apart(holes[Old(j)].start, holes[Old(j)].size, x, n)
      BY <1>2, <1>3, <1>4, <3>2 DEF n, Apart
    <3>4. holes[Old(j)].start + holes[Old(j)].size <= ip
      BY <1>0, <3>1 DEF Tiling, Below
    <3>5. ASSUME NEW t \in placed
          PROVE  Apart(holes[Old(j)].start, holes[Old(j)].size,
                       offset[t], sections[t].size)
      BY <3>1 DEF Tiling, HolesFree
    <3> QED
      BY <3>1, <3>2, <3>3, <3>4, <3>5
  <2>2. CASE j \notin 1 .. Len(kept)
    <3> DEFINE k == j - Len(kept)
    <3>1. k \in DOMAIN r /\ holes'[j] = r[k]
      BY <1>11, <2>2
    <3> HIDE DEF k
    <3>2. /\ r[k].start \in Nat /\ r[k].size \in Nat
          /\ h.start <= r[k].start
          /\ r[k].start + r[k].size <= h.start + h.size
          /\ Apart(r[k].start, r[k].size, x, n)
      BY <1>4, <1>13, <3>1
    <3>3. r[k].start + r[k].size <= ip
      BY <1>0, <1>3, <1>15, <3>2
    <3>4. ASSUME NEW t \in placed
          PROVE  Apart(r[k].start, r[k].size, offset[t], sections[t].size)
      BY <1>3, <1>14, <3>2 DEF Apart
    <3> QED
      BY <3>1, <3>2, <3>3, <3>4
  <2> QED
    BY <2>1, <2>2
<1>17. ASSUME NEW t \in placed', t # s
       PROVE  t \in placed /\ offset'[t] = offset[t] /\ t \in DOMAIN sections
  BY <1>8, <1>14, <1>17
<1>18. Below'
  <2>1. ASSUME NEW t \in placed'
        PROVE  offset'[t] + sections[t].size <= ip
    <3>1. CASE t = s
      BY <1>0, <1>2, <1>3, <1>4, <1>8, <1>15, <3>1 DEF n
    <3>2. CASE t # s
      BY <1>0, <1>17, <3>2 DEF Tiling, Below
    <3> QED
      BY <3>1, <3>2
  <2> QED
    BY <1>0, <1>8, <1>16, <2>1 DEF Below
<1>19. PlacedApart'
  <2>1. ASSUME NEW t \in placed', NEW u \in placed' \ {t}
        PROVE  Apart(offset'[t], sections[t].size, offset'[u], sections[u].size)
    <3>0. u \in placed' /\ u # t
      OBVIOUS
    <3>1. CASE t = s
      <4>1. u \in placed /\ offset'[u] = offset[u]
        BY <1>17, <3>0, <3>1
      <4> QED
        BY <1>2, <1>3, <1>4, <1>8, <1>14, <3>1, <4>1, SMTT(30) DEF n, Apart
    <3>2. CASE u = s
      <4>1. t \in placed /\ offset'[t] = offset[t]
        BY <1>17, <3>0, <3>2
      <4> QED
        BY <1>2, <1>3, <1>4, <1>8, <1>14, <3>2, <4>1 DEF n, Apart
    <3>3. CASE t # s /\ u # s
      <4>1. t \in placed /\ offset'[t] = offset[t]
        BY <1>17, <3>3
      <4>2. u \in placed \ {t} /\ offset'[u] = offset[u]
        BY <1>17, <3>0, <3>3
      <4> QED
        BY <4>1, <4>2 DEF Tiling, PlacedApart
    <3> QED
      BY <3>1, <3>2, <3>3
  <2>2. ASSUME NEW t \in placed', sections[t].align # 0
        PROVE  offset'[t] % sections[t].align = 0
    <3>1. CASE t = s
      <4>1. x % sections[s].align = 0
        BY <1>2, <1>3, <2>2, <3>1, AlignUpProperties DEF x
      <4> QED
        BY <1>8, <3>1, <4>1
    <3>2. CASE t # s
      BY <1>17, <2>2, <3>2 DEF Tiling, PlacedApart
    <3> QED
      BY <3>1, <3>2
  <2> QED
    BY <1>8, <2>1, <2>2 DEF PlacedApart
<1>20. HolesFree'
  <2>1. ASSUME NEW j \in DOMAIN holes', NEW k \in DOMAIN holes' \ {j}
        PROVE  Apart(holes'[j].start, holes'[j].size, holes'[k].start, holes'[k].size)
    <3>0. k \in DOMAIN holes' /\ k # j /\ Len(kept) \in Nat
            /\ j \in Nat /\ k \in Nat
      BY <1>6, <1>10
    <3>1. CASE j \in 1 .. Len(kept) /\ k \in 1 .. Len(kept)
      <4>1. Old(j) \in DOMAIN holes /\ holes'[j] = holes[Old(j)]
        BY <1>11, <3>1
      <4>2. Old(k) \in DOMAIN holes /\ holes'[k] = holes[Old(k)]
        BY <1>11, <3>0, <3>1
      <4>3. Old(j) # Old(k)
        BY <1>5, <3>0, <3>1
      <4> QED
        BY <4>1, <4>2, <4>3 DEF Tiling, HolesFree
    <3>2. CASE j \in 1 .. Len(kept) /\ k \notin 1 .. Len(kept)
      <4> DEFINE u == Old(j)
                 v == k - Len(kept)
      <4>1. u \in DOMAIN holes \ {i} /\ holes'[j] = holes[u]
        BY <1>11, <3>2
      <4>2. v \in DOMAIN r /\ holes'[k] = r[v]
        BY <1>11, <3>0, <3>2
      <4> HIDE DEF u, v
      <4>3. /\ holes[u].start \in Nat /\ holes[u].size \in Nat
            /\ Apart(h.start, h.size, holes[u].start, holes[u].size)
        BY <1>12, <4>1
      <4>4. /\ r[v].start \in Nat /\ r[v].size \in Nat
            /\ h.start <= r[v].start
            /\ r[v].start + r[v].size <= h.start + h.size
        BY <1>4, <1>13, <4>2
      <4>5. /\ Apart(holes[u].start, holes[u].size, r[v].start, r[v].size)
            /\ Apart(r[v].start, r[v].size, holes[u].start, holes[u].size)
        BY <1>3, <4>3, <4>4 DEF Apart
      <4> QED
        BY <4>1, <4>2, <4>5
    <3>3. CASE j \notin 1 .. Len(kept) /\ k \in 1 .. Len(kept)
      <4> DEFINE u == Old(k)
                 v == j - Len(kept)
      <4>1. u \in DOMAIN holes \ {i} /\ holes'[k] = holes[u]
        BY <1>11, <3>0, <3>3
      <4>2. v \in DOMAIN r /\ holes'[j] = r[v]
        BY <1>11, <3>3
      <4> HIDE DEF u, v
      <4>3. /\ holes[u].start \in Nat /\ holes[u].size \in Nat
            /\ Apart(h.start, h.size, holes[u].start, holes[u].size)
        BY <1>12, <4>1
      <4>4. /\ r[v].start \in Nat /\ r[v].size \in Nat
            /\ h.start <= r[v].start
            /\ r[v].start + r[v].size <= h.start + h.size
        BY <1>4, <1>13, <4>2
      <4>5. /\ Apart(holes[u].start, holes[u].size, r[v].start, r[v].size)
            /\ Apart(r[v].start, r[v].size, holes[u].start, holes[u].size)
        BY <1>3, <4>3, <4>4 DEF Apart
      <4> QED
        BY <4>1, <4>2, <4>5
    <3>4. CASE j \notin 1 .. Len(kept) /\ k \notin 1 .. Len(kept)
      <4>1. j - Len(kept) \in DOMAIN r /\ holes'[j] = r[j - Len(kept)]
        BY <1>11, <3>4
      <4>2. k - Len(kept) \in DOMAIN r /\ holes'[k] = r[k - Len(kept)]
        BY <1>11, <3>0, <3>4
      <4>3. k - Len(kept) # j - Len(kept)
        BY <3>0
      <4> QED
        BY <1>4, <4>1, <4>2, <4>3
    <3> QED
      BY <3>1, <3>2, <3>3, <3>4
  <2>2. ASSUME NEW j \in DOMAIN holes', NEW t \in placed'
        PROVE  Apart(holes'[j].start, holes'[j].size, offset'[t], sections[t].size)
    <3>1. CASE t = s
      BY <1>8, <1>16, <3>1 DEF n
    <3>2. CASE t # s
      BY <1>16, <1>17, <3>2
    <3> QED
      BY <3>1, <3>2
  <2> QED
    BY <1>8, <2>1, <2>2 DEF HolesFree
<1> QED
  BY <1>18, <1>19, <1>20 DEF Tiling

LEMMA PlaceAtEndTiling == Typed /\ Tiling /\ PlaceAtEnd => Tiling'
<1> SUFFICES ASSUME Typed, Tiling, PlaceAtEnd PROVE Tiling'
  OBVIOUS
<1>0. phase = "fit" /\ ip \in Nat
  BY DEF PlaceAtEnd, Typed, TypeOK
<1>1. PICK s \in todo :
        /\ Place(s, AlignUp(ip, sections[s].align))
        /\ holes' = IF fit = "fill" THEN holes \o NonEmpty(ip, Gap(ip, s)) ELSE holes
        /\ ip' = AlignUp(ip, sections[s].align) + sections[s].size
  BY DEF PlaceAtEnd
<1> DEFINE x == AlignUp(ip, sections[s].align)
           n == sections[s].size
           gap == x - ip
           r == NonEmpty(ip, gap)
<1>2. s \in DOMAIN sections /\ n \in Nat /\ sections[s].align \in Nat
  BY SectionTypes DEF Typed, TypeOK
<1>3. /\ x \in Nat /\ ip <= x /\ gap \in Nat
      /\ Gap(ip, s) = gap /\ ip + gap = x
      /\ sections[s].align # 0 => x % sections[s].align = 0
  <2>1. /\ x \in Nat /\ x >= ip
        /\ sections[s].align # 0 => x % sections[s].align = 0
    BY <1>0, <1>2, AlignUpProperties
  <2>2. Gap(ip, s) = gap
    BY DEF Gap
  <2> HIDE DEF x
  <2> QED
    BY <1>0, <2>1, <2>2
<1>4. ip' = x + n /\ Place(s, x)
        /\ holes' = IF fit = "fill" THEN holes \o r ELSE holes
  BY <1>1, <1>3
<1> HIDE DEF x
<1>5. /\ r \in Seq(Hole) /\ Len(r) \in 0 .. 1
      /\ \A j \in DOMAIN r : r[j] = [start |-> ip, size |-> gap]
  <2>1. gap \in Int
    BY <1>3
  <2> HIDE DEF gap
  <2> QED
    BY <1>0, <2>1, NonEmptyProperties
<1> HIDE DEF n, r, gap
<1>6. /\ placed' = placed \cup {s} /\ sections' = sections
      /\ offset'[s] = x
      /\ \A t \in DOMAIN sections \ {s} : offset'[t] = offset[t]
  BY <1>3, <1>4, PlaceTypes
<1>7. holes \in Seq(Hole)
  BY DEF Typed, TypeOK, Hole
<1>8. ASSUME NEW j \in DOMAIN holes'
      PROVE  \/ j \in DOMAIN holes /\ holes'[j] = holes[j]
             \/ /\ j = Len(holes) + 1 /\ j \notin DOMAIN holes
                /\ holes'[j].start = ip /\ holes'[j].size = gap
  <2>1. CASE fit # "fill"
    BY <1>4, <2>1
  <2>2. CASE fit = "fill"
    <3>1. /\ holes \o r \in Seq(Hole) /\ Len(holes \o r) = Len(holes) + Len(r)
          /\ \A k \in 1 .. Len(holes) + Len(r) :
               (holes \o r)[k] = IF k <= Len(holes) THEN holes[k] ELSE r[k - Len(holes)]
      BY <1>5, <1>7, ConcatProperties
    <3>2. j \in 1 .. Len(holes) + Len(r) /\ Len(holes) \in Nat
            /\ DOMAIN holes = 1 .. Len(holes) /\ DOMAIN r = 1 .. Len(r)
      BY <1>4, <1>5, <1>7, <2>2, <3>1
    <3>3. CASE j <= Len(holes)
      BY <1>4, <2>2, <3>1, <3>2, <3>3
    <3>4. CASE ~(j <= Len(holes))
      <4>1. j = Len(holes) + 1 /\ j - Len(holes) = 1 /\ 1 \in DOMAIN r
        BY <1>5, <3>2, <3>4
      <4>2. holes'[j] = [start |-> ip, size |-> gap]
        BY <1>4, <1>5, <2>2, <3>1, <3>2, <3>4, <4>1
      <4>3. holes'[j].start = ip /\ holes'[j].size = gap
        BY <4>2
      <4> QED
        BY <3>2, <4>1, <4>3
    <3> QED
      BY <3>3, <3>4
  <2> QED
    BY <2>1, <2>2
(* What was there ends before the section and before the gap in front.     *)
<1>9. ASSUME NEW t \in placed
      PROVE  /\ t \in DOMAIN sections /\ offset[t] \in Nat
             /\ sections[t].size \in Nat
             /\ offset[t] + sections[t].size <= ip
  <2>1. t \in DOMAIN sections
    BY DEF Typed, TypeOK
  <2> QED
    BY <1>0, <2>1, SectionTypes DEF Tiling, Below
<1>10. ASSUME NEW j \in DOMAIN holes
       PROVE  /\ holes[j].start \in Nat /\ holes[j].size \in Nat
              /\ holes[j].start + holes[j].size <= ip
  BY <1>0, HoleTypes DEF Tiling, Below
<1>11. ASSUME NEW t \in placed', t # s
       PROVE  t \in placed /\ offset'[t] = offset[t] /\ t \in DOMAIN sections
  BY <1>6, <1>9, <1>11
<1>12. Below'
  <2>1. ASSUME NEW t \in placed'
        PROVE  offset'[t] + sections[t].size <= ip'
    <3>1. CASE t = s
      BY <1>2, <1>3, <1>4, <1>6, <3>1 DEF n
    <3>2. CASE t # s
      BY <1>0, <1>2, <1>3, <1>4, <1>9, <1>11, <3>2
    <3> QED
      BY <3>1, <3>2
  <2>2. ASSUME NEW j \in DOMAIN holes'
        PROVE  holes'[j].start + holes'[j].size <= ip'
    <3>1. ip <= ip' /\ ip + gap <= ip' /\ ip' \in Nat
      BY <1>0, <1>2, <1>3, <1>4
    <3>2. CASE j \in DOMAIN holes /\ holes'[j] = holes[j]
      BY <1>0, <1>10, <3>1, <3>2
    <3>3. CASE holes'[j].start = ip /\ holes'[j].size = gap
      BY <3>1, <3>3
    <3> QED
      BY <1>8, <3>2, <3>3
  <2> QED
    BY <1>6, <2>1, <2>2 DEF Below
<1>13. PlacedApart'
  <2>1. ASSUME NEW t \in placed', NEW u \in placed' \ {t}
        PROVE  Apart(offset'[t], sections[t].size, offset'[u], sections[u].size)
    <3>0. u \in placed' /\ u # t
      OBVIOUS
    <3>1. CASE t = s
      <4>1. u \in placed /\ offset'[u] = offset[u]
        BY <1>11, <3>0, <3>1
      <4> QED
        BY <1>0, <1>2, <1>3, <1>6, <1>9, <3>1, <4>1 DEF Apart
    <3>2. CASE u = s
      <4>1. t \in placed /\ offset'[t] = offset[t]
        BY <1>11, <3>0, <3>2
      <4> QED
        BY <1>0, <1>2, <1>3, <1>6, <1>9, <3>2, <4>1 DEF Apart
    <3>3. CASE t # s /\ u # s
      <4>1. t \in placed /\ offset'[t] = offset[t]
        BY <1>11, <3>3
      <4>2. u \in placed \ {t} /\ offset'[u] = offset[u]
        BY <1>11, <3>0, <3>3
      <4> QED
        BY <4>1, <4>2 DEF Tiling, PlacedApart
    <3> QED
      BY <3>1, <3>2, <3>3
  <2>2. ASSUME NEW t \in placed', sections[t].align # 0
        PROVE  offset'[t] % sections[t].align = 0
    <3>1. CASE t = s
      BY <1>3, <1>6, <2>2, <3>1
    <3>2. CASE t # s
      BY <1>11, <2>2, <3>2 DEF Tiling, PlacedApart
    <3> QED
      BY <3>1, <3>2
  <2> QED
    BY <1>6, <2>1, <2>2 DEF PlacedApart
<1>14. HolesFree'
  <2>1. ASSUME NEW j \in DOMAIN holes', NEW k \in DOMAIN holes' \ {j}
        PROVE  Apart(holes'[j].start, holes'[j].size, holes'[k].start, holes'[k].size)
    <3>0. k \in DOMAIN holes' /\ k # j
      OBVIOUS
    <3>1. CASE j \in DOMAIN holes /\ k \in DOMAIN holes
      <4>1. holes'[j] = holes[j] /\ holes'[k] = holes[k]
        BY <1>8, <3>0, <3>1
      <4> QED
        BY <3>0, <3>1, <4>1 DEF Tiling, HolesFree
    <3>2. CASE j \in DOMAIN holes /\ k \notin DOMAIN holes
      <4>1. holes'[j] = holes[j] /\ holes'[k].start = ip
        BY <1>8, <3>0, <3>2
      <4> QED
        BY <1>10, <3>2, <4>1 DEF Apart
    <3>3. CASE j \notin DOMAIN holes /\ k \in DOMAIN holes
      <4>1. holes'[k] = holes[k] /\ holes'[j].start = ip
        BY <1>8, <3>0, <3>3
      <4> QED
        BY <1>10, <3>3, <4>1 DEF Apart
    <3>4. j \in DOMAIN holes \/ k \in DOMAIN holes
      BY <1>8, <3>0
    <3> QED
      BY <3>1, <3>2, <3>3, <3>4
  <2>2. ASSUME NEW j \in DOMAIN holes', NEW t \in placed'
        PROVE  Apart(holes'[j].start, holes'[j].size, offset'[t], sections[t].size)
    <3>1. CASE t = s
      <4>1. holes'[j].start + holes'[j].size <= x
        <5>1. CASE j \in DOMAIN holes /\ holes'[j] = holes[j]
          BY <1>0, <1>3, <1>10, <5>1
        <5>2. CASE holes'[j].start = ip /\ holes'[j].size = gap
          BY <1>3, <5>2
        <5> QED
          BY <1>8, <5>1, <5>2
      <4> QED
        BY <1>6, <3>1, <4>1 DEF Apart
    <3>2. CASE t # s
      <4>1. t \in placed /\ offset'[t] = offset[t]
        BY <1>11, <3>2
      <4>2. CASE j \in DOMAIN holes /\ holes'[j] = holes[j]
        BY <4>1, <4>2 DEF Tiling, HolesFree
      <4>3. CASE holes'[j].start = ip
        BY <1>9, <4>1, <4>3 DEF Apart
      <4> QED
        BY <1>8, <4>2, <4>3
    <3> QED
      BY <3>1, <3>2
  <2> QED
    BY <1>6, <2>1, <2>2 DEF HolesFree
<1> QED
  BY <1>12, <1>13, <1>14 DEF Tiling

(* Steps that move no section and keep the holes, or drop them.            *)
LEMMA KeepsApart ==
  ASSUME Tiling, sections' = sections, offset' = offset,
         placed' = placed, holes' = holes \/ holes' = <<>>
  PROVE  PlacedApart' /\ HolesFree'
<1>1. PlacedApart'
  BY DEF Tiling, PlacedApart
<1>2. HolesFree'
  BY DEF Tiling, HolesFree
<1> QED
  BY <1>1, <1>2

LEMMA BeginSegmentTiling == Typed /\ Tiling /\ BeginSegment => Tiling'
<1> SUFFICES ASSUME Typed, Tiling, BeginSegment PROVE Tiling'
  OBVIOUS
<1>1. /\ sections' = sections /\ offset' = offset /\ placed' = placed
      /\ holes' = <<>> /\ phase = "segment"
  BY DEF BeginSegment, input
<1>2. ip <= ip' /\ ip' \in Nat /\ ip \in Nat
  <2>1. layout \in Layouts /\ sections \in Programs /\ seg \in 1 .. Len(layout)
    BY DEF BeginSegment, Typed, TypeOK
  <2>2. /\ layout[seg].begin \in Nat \cup {None}
        /\ layout[seg].minBegin \in Nat \cup {None}
    BY <2>1, InputTypes
  <2> QED
    BY <2>2 DEF BeginSegment, MayBegin, MaxOf, Typed, TypeOK
<1>3. Below'
  <2>1. ASSUME NEW s \in placed
        PROVE  offset[s] + sections[s].size <= ip'
    <3>1. s \in DOMAIN sections /\ offset[s] \in Nat /\ sections[s].size \in Nat
      BY SectionTypes DEF Typed, TypeOK
    <3> QED
      BY <1>1, <1>2, <3>1 DEF Tiling, Below
  <2> QED
    BY <1>1, <2>1 DEF Below
<1> QED
  BY <1>1, <1>3, KeepsApart DEF Tiling

LEMMA EndSegmentTiling == Typed /\ Tiling /\ EndSegment => Tiling'
<1> SUFFICES ASSUME Typed, Tiling, EndSegment PROVE Tiling'
  OBVIOUS
<1>1. /\ sections' = sections /\ offset' = offset /\ placed' = placed
      /\ holes' = holes /\ phase = "fit"
  BY DEF EndSegment, input
<1>2. ip <= ip' /\ ip' \in Nat /\ ip \in Nat
  <2>1. layout \in Layouts /\ sections \in Programs /\ seg \in 1 .. Len(layout)
    BY InputTypes DEF EndSegment, Typed, TypeOK, Shape
  <2>2. layout[seg].end \in Nat \cup {None, Bloat}
    BY <2>1, InputTypes
  <2>3. ip \in Nat /\ bisect.size \in Nat
    BY DEF Typed, TypeOK
  <2> QED
    BY <2>2, <2>3 DEF EndSegment, MayEnd
<1>3. Below'
  <2>1. ASSUME NEW s \in placed
        PROVE  offset[s] + sections[s].size <= ip'
    <3>1. s \in DOMAIN sections /\ offset[s] \in Nat /\ sections[s].size \in Nat
      BY SectionTypes DEF Typed, TypeOK
    <3> QED
      BY <1>1, <1>2, <3>1 DEF Tiling, Below
  <2>2. ASSUME NEW i \in DOMAIN holes
        PROVE  holes[i].start + holes[i].size <= ip'
    <3>1. holes[i].start \in Nat /\ holes[i].size \in Nat
      BY HoleTypes
    <3> QED
      BY <1>1, <1>2, <3>1 DEF Tiling, Below
  <2> QED
    BY <1>1, <2>1, <2>2 DEF Below
<1> QED
  BY <1>1, <1>3, KeepsApart DEF Tiling

(* The end of a try, with or without success, starts another from nothing  *)
(* or leaves the sections where they are.                                  *)
LEMMA StartTryTiling == StartTry => Tiling'
  BY DEF StartTry, Tiling, Below, PlacedApart, HolesFree

LEMMA RestTiling ==
  ASSUME Tiling, phase' \notin {"segment", "fit"},
         sections' = sections, offset' = offset, placed' = placed, holes' = holes
  PROVE  Tiling'
  BY KeepsApart DEF Tiling, Below

LEMMA BisectTiling ==
  ASSUME Tiling, UNCHANGED <<input, offset, rom>>,
         NEW STATE size, NEW STATE lower, NEW STATE upper, NEW STATE found,
         Bisect(size, lower, upper, found)
  PROVE  Tiling'
<1>1. CASE StartTry
  BY <1>1, StartTryTiling
<1>2. CASE StartLink(found)
  BY <1>2, RestTiling DEF StartLink, input
<1>3. CASE Stop("failed")
  BY <1>3, RestTiling DEF Stop, input
<1> QED
  BY <1>1, <1>2, <1>3 DEF Bisect

LEMMA TryFailsTiling ==
  ASSUME Tiling, UNCHANGED <<input, offset, rom>>, TryFails
  PROVE  Tiling'
<1>1. CASE Stop("failed")
  BY <1>1, RestTiling DEF Stop, input
<1>2. CASE Bisect((bisect.size + bisect.lower) \div 2,
                  bisect.lower, bisect.size, best)
  BY <1>2, BisectTiling
<1> QED
  BY <1>1, <1>2 DEF TryFails

LEMMA TrySucceedsTiling ==
  ASSUME Tiling, UNCHANGED <<input, offset, rom>>, TrySucceeds
  PROVE  Tiling'
<1>1. CASE StartLink(segments)
  BY <1>1, RestTiling DEF StartLink, input
<1>2. CASE Bisect((bisect.size + bisect.upper) \div 2,
                  bisect.size, bisect.upper, segments)
  BY <1>2, BisectTiling
<1> QED
  BY <1>1, <1>2 DEF TrySucceeds

LEMMA NextTiling == Typed /\ Tiling /\ [Next]_vars => Tiling'
<1> SUFFICES ASSUME Typed, Tiling, [Next]_vars PROVE Tiling'
  OBVIOUS
<1>1. CASE SegmentOverflow
  BY <1>1, TryFailsTiling DEF SegmentOverflow
<1>2. CASE BeginSegment
  BY <1>2, BeginSegmentTiling
<1>3. CASE PlaceInHole
  BY <1>3, PlaceInHoleTiling
<1>4. CASE PlaceAtEnd
  BY <1>4, PlaceAtEndTiling
<1>5. CASE EndOverflow
  BY <1>5, TryFailsTiling DEF EndOverflow
<1>6. CASE EndSegment
  BY <1>6, EndSegmentTiling
<1>7. CASE EndTry
  BY <1>7, TrySucceedsTiling DEF EndTry
<1>8. CASE LinkFails
  BY <1>8, RestTiling DEF LinkFails, Stop, input
<1>9. CASE LinkSegment
  BY <1>9, RestTiling DEF LinkSegment, input
<1>10. CASE StartRom
  BY <1>10, RestTiling DEF StartRom, input
<1>11. CASE CopySection
  <2>1. phase' \in {"rom", "crashed"}
    BY <1>11 DEF CopySection
  <2> QED
    BY <1>11, <2>1, RestTiling DEF CopySection, input
<1>12. CASE Finish
  BY <1>12, RestTiling DEF Finish, input
<1>13. CASE UNCHANGED vars
  BY <1>13 DEF vars, Tiling, Below, PlacedApart, HolesFree
<1> QED
  BY <1>1, <1>2, <1>3, <1>4, <1>5, <1>6, <1>7, <1>8, <1>9, <1>10, <1>11,
     <1>12, <1>13 DEF Next

LEMMA InitTiling == Init => Tiling
  BY DEF Init, Tiling, Below, PlacedApart, HolesFree

(* Sections placed in the same try are aligned and share no byte, whatever *)
(* gaps the fill strategy goes back to (fitSectionsFill).                  *)
THEOREM SectionsApart == Spec => []PlacedApart
<1>1. Typed /\ Tiling => PlacedApart
  BY DEF Tiling
<1> QED
  BY <1>1, InitTypes, NextTypes, InitTiling, NextTiling, PTL DEF Spec

(* The gaps the fill strategy remembers are free (fitSectionsFill). *)
THEOREM HolesCorrect == Spec => []HolesFree
<1>1. Typed /\ Tiling => HolesFree
  BY DEF Tiling
<1> QED
  BY <1>1, InitTypes, NextTypes, InitTiling, NextTiling, PTL DEF Spec

---------------------------------------------------------------------------
(***************************************************************************)
(* Where the linker puts what it links, for every address space, program   *)
(* and layout: sections lie inside their segments and, with the simple     *)
(* strategy, in the order of the command line; and the ROM image holds     *)
(* every byte of every section that has a place in it, if a shadow is the  *)
(* origin segment that keeps room for its segment.                         *)
(*                                                                         *)
(* The first two do not follow from where a step puts a section: a hole    *)
(* could begin before the segment, a section placed late could belong to a *)
(* segment that is closed, and link changes the bounds of origin segments  *)
(* after all sections have been placed.                                    *)
(*                                                                         *)
(* RomComplete is about the last step; what makes it true is that link     *)
(* leaves the segments one behind the other, so that an origin segment,    *)
(* whose size is that of its target, shares no byte with a segment in      *)
(* which sections lie.                                                     *)
(***************************************************************************)

InBounds(s, b, e) == b <= offset[s] /\ offset[s] + sections[s].size <= e
InOwn(s) ==
  LET b == segments[sections[s].segment] IN InBounds(s, b.begin, b.end)

(* Which sections have been placed, and where. *)
Placing ==
  /\ phase = "segment" =>
       /\ placed = {s \in DOMAIN sections : sections[s].segment < seg}
       /\ \A s \in placed : InOwn(s)
  /\ phase = "fit" =>
       /\ \A s \in todo : sections[s].segment = seg
       /\ placed = {s \in DOMAIN sections : sections[s].segment <= seg} \ todo
       /\ \A s \in placed :
            IF sections[s].segment = seg THEN InBounds(s, segments[seg].begin, ip)
                                         ELSE InOwn(s)
       /\ \A i \in DOMAIN holes : segments[seg].begin <= holes[i].start

(* What link leaves of the bounds. *)
Linking ==
  ~HasBloat /\ phase \in {"origin", "rom", "done"} =>
    /\ placed = DOMAIN sections
    /\ \A s \in DOMAIN sections :
         sections[s].size > 0 =>
           /\ InOwn(s)
           /\ phase # "origin" \/ sections[s].segment < seg => ~IsOrigin(sections[s].segment)

Ordering ==
  fit = "simple" =>
    /\ \A s, t \in placed :
         s < t /\ sections[s].segment = sections[t].segment =>
           offset[s] + sections[s].size <= offset[t]
    /\ phase = "fit" => \A s \in placed, t \in todo : sections[s].segment = seg => s < t

Placed == Placing /\ Linking /\ Ordering

---------------------------------------------------------------------------
LEMMA SectionFields ==
  ASSUME Typed, NEW s \in DOMAIN sections
  PROVE  /\ s \in Nat /\ sections[s].size \in Nat /\ sections[s].align \in Nat
         /\ sections[s].segment \in 1 .. Len(layout)
  BY InputTypes DEF Typed, TypeOK

LEMMA SegmentFields ==
  ASSUME Typed, NEW i \in 1 .. Len(segments)
  PROVE  segments[i].begin \in Nat /\ segments[i].end \in Nat
  <1>1. segments[i] \in Bounds
    BY ElementOfSeq DEF Typed, TypeOK
  <1> QED BY <1>1 DEF Bounds

LEMMA InitPlaced == Init => Placed
  <1> SUFFICES ASSUME Init PROVE Placed
    OBVIOUS
  <1>1. {s \in DOMAIN sections : sections[s].segment < 1} = {}
    <2>1. \A s \in DOMAIN sections : sections[s].segment \in 1 .. Len(layout)
      BY InitTypes, SectionFields
    <2> QED BY <2>1
  <1> QED BY <1>1 DEF Init, Placed, Placing, Linking, Ordering

(* A try that is abandoned, and one from which the linker goes on. *)
LEMMA StartTryPlaced ==
  ASSUME Typed, StartTry, UNCHANGED input
  PROVE  Placed'
  <1>1. \A s \in DOMAIN sections : ~(sections[s].segment < 1)
    BY SectionFields
  <1> QED BY <1>1 DEF StartTry, input, Placed, Placing, Linking, Ordering

LEMMA StopPlaced ==
  ASSUME Placed, Stop("failed"), UNCHANGED <<input, offset>>
  PROVE  Placed'
  BY DEF Stop, input, Placed, Placing, Linking, Ordering

LEMMA BisectPlaced ==
  ASSUME Typed, Placed, HasBloat, UNCHANGED <<input, offset>>,
         NEW STATE size, NEW STATE lower, NEW STATE upper, NEW STATE found,
         Bisect(size, lower, upper, found)
  PROVE  Placed'
  <1>1. CASE StartTry
    BY <1>1, StartTryPlaced
  <1>2. CASE StartLink(found)
    BY <1>2 DEF StartLink, input, Placed, Placing, Linking, Ordering, HasBloat
  <1>3. CASE Stop("failed")
    BY <1>3, StopPlaced
  <1> QED BY <1>1, <1>2, <1>3 DEF Bisect

LEMMA TryFailsPlaced ==
  ASSUME Typed, Placed, TryFails, UNCHANGED <<input, offset>>
  PROVE  Placed'
  <1>1. CASE HasBloat
    BY <1>1, BisectPlaced DEF TryFails
  <1>2. CASE ~HasBloat
    BY <1>2, StopPlaced DEF TryFails
  <1> QED BY <1>1, <1>2

LEMMA EndTryPlaced ==
  ASSUME Typed, Placed, EndTry
  PROVE  Placed'
  <1>1. CASE HasBloat
    BY <1>1, BisectPlaced DEF EndTry, TrySucceeds
  <1>2. CASE ~HasBloat
    <2>1. StartLink(segments) /\ UNCHANGED <<input, offset>> /\ phase = "segment"
            /\ seg = Len(layout) + 1
      BY <1>2 DEF EndTry, TrySucceeds
    <2>2. placed = DOMAIN sections /\ \A s \in DOMAIN sections : InOwn(s) /\ ~(sections[s].segment < 1)
      <3>1. placed = {s \in DOMAIN sections : sections[s].segment < Len(layout) + 1}
        BY <2>1 DEF Placed, Placing
      <3>2. \A s \in DOMAIN sections : sections[s].segment \in 1 .. Len(layout) /\ Len(layout) \in Nat
        BY SectionFields, InputTypes DEF Typed, TypeOK
      <3>3. placed = DOMAIN sections
        BY <3>1, <3>2
      <3> QED BY <2>1, <3>2, <3>3 DEF Placed, Placing
    <2>3. Placing' /\ Ordering'
      BY <2>1 DEF StartLink, input, Placed, Placing, Ordering
    <2>4. /\ sections' = sections /\ offset' = offset /\ segments' = segments /\ placed' = placed
          /\ phase' = "origin" /\ seg' = 1
      BY <2>1 DEF StartLink, input
    <2>5. Linking'
      BY <2>2, <2>4 DEF Linking, InOwn, InBounds
    <2> QED BY <2>3, <2>5 DEF Placed
  <1> QED BY <1>1, <1>2

---------------------------------------------------------------------------
(* One try. *)

LEMMA BeginSegmentPlaced ==
  ASSUME Typed, Placed, BeginSegment
  PROVE  Placed'
  <1>1. /\ phase = "segment" /\ phase' = "fit" /\ seg \in 1 .. Len(layout) /\ seg' = seg
        /\ UNCHANGED <<input, offset, placed>> /\ holes' = <<>>
        /\ todo' = {s \in DOMAIN sections : sections[s].segment = seg}
        /\ layout' = layout /\ sections' = sections /\ fit' = fit
    BY DEF BeginSegment, Typed, TypeOK, input
  <1>2. Len(segments) = seg - 1 /\ segments \in Seq(Bounds) /\ seg \in Nat
    BY <1>1 DEF Typed, TypeOK, Shape
  <1>3. \A i \in 1 .. seg - 1 : segments'[i] = segments[i]
    BY <1>2 DEF BeginSegment
  <1>4. \A s \in DOMAIN sections : sections[s].segment \in Nat \ {0}
    BY SectionFields
  <1>5. placed = {s \in DOMAIN sections : sections[s].segment < seg} /\ \A s \in placed : InOwn(s)
    BY <1>1 DEF Placed, Placing
  <1>6. Placing'
    <2>1. placed' = {s \in DOMAIN sections : sections[s].segment <= seg} \ todo'
      BY <1>1, <1>2, <1>4, <1>5
    <2>2. ASSUME NEW s \in placed PROVE sections[s].segment # seg /\ InOwn(s)'
      <3>1. s \in DOMAIN sections /\ sections[s].segment \in 1 .. seg - 1 /\ InOwn(s)
        BY <1>2, <1>4, <1>5
      <3> QED BY <1>1, <1>2, <1>3, <3>1 DEF InOwn, InBounds
    <2> QED BY <1>1, <2>1, <2>2 DEF Placing
  <1>7. Linking'
    BY <1>1 DEF Linking
  <1>8. Ordering'
    BY <1>1, <1>2, <1>5 DEF Placed, Ordering
  <1> QED BY <1>6, <1>7, <1>8 DEF Placed

LEMMA EndSegmentPlaced ==
  ASSUME Typed, Placed, EndSegment
  PROVE  Placed'
  <1>1. /\ phase = "fit" /\ phase' = "segment" /\ seg \in 1 .. Len(layout) /\ seg' = seg + 1
        /\ UNCHANGED <<input, offset, placed>> /\ todo = {} /\ Len(segments) = seg
        /\ segments \in Seq(Bounds) /\ ip \in Nat /\ bisect.size \in Nat
        /\ layout' = layout /\ sections' = sections /\ fit' = fit
    BY DEF EndSegment, Typed, TypeOK, Shape, input
  <1>2. segments' = [segments EXCEPT ![seg] = [begin |-> segments[seg].begin, end |-> ip']]
    BY DEF EndSegment
  <1>3. ip <= ip' /\ ip' \in Nat
    <2>1. layout[seg].end \in Nat \cup {None, Bloat}
      BY <1>1, InputTypes DEF Typed, TypeOK
    <2> QED BY <1>1, <2>1 DEF EndSegment, MayEnd
  <1>4. Placing'
    <2>1. placed' = {s \in DOMAIN sections : sections[s].segment < seg + 1}
      BY <1>1, SectionFields DEF Placed, Placing
    <2>2. ASSUME NEW s \in placed PROVE InOwn(s)'
      <3>1. /\ s \in DOMAIN sections /\ sections[s].segment \in 1 .. seg
            /\ offset[s] \in Nat /\ sections[s].size \in Nat
        BY <1>1, <2>1, SectionFields, SectionTypes DEF Typed, TypeOK
      <3>2. CASE sections[s].segment = seg
        <4>1. InBounds(s, segments[seg].begin, ip)
          BY <1>1, <3>2 DEF Placed, Placing
        <4>2. segments'[seg].begin = segments[seg].begin /\ segments'[seg].end = ip'
          BY <1>1, <1>2
        <4> QED BY <1>1, <1>3, <3>1, <3>2, <4>1, <4>2 DEF InOwn, InBounds
      <3>3. CASE sections[s].segment # seg
        <4>1. InOwn(s)
          BY <1>1, <3>3 DEF Placed, Placing
        <4>2. segments'[sections[s].segment] = segments[sections[s].segment]
          BY <1>1, <1>2, <3>1, <3>3
        <4> QED BY <1>1, <4>1, <4>2 DEF InOwn, InBounds
      <3> QED BY <3>2, <3>3
    <2> QED BY <1>1, <2>1, <2>2 DEF Placing
  <1>5. Linking' /\ Ordering'
    BY <1>1 DEF Placed, Linking, Ordering
  <1> QED BY <1>4, <1>5 DEF Placed

(* A section placed at x, inside what the segment has so far: the other    *)
(* sections stay where they are.                                           *)
LEMMA PlacePlacing ==
  ASSUME Typed, Placing, phase = "fit", NEW STATE s, s \in todo, NEW STATE x, x \in Nat, Place(s, x),
         ip \in Nat, ip' \in Nat, ip <= ip', phase' \in {"fit", "crashed"},
         segments[seg].begin <= x, x + sections[s].size <= ip',
         \A i \in DOMAIN holes' : segments[seg].begin <= holes'[i].start
  PROVE  Placing'
  <1>1. /\ seg' = seg /\ segments' = segments /\ todo' = todo \ {s} /\ placed' = placed \cup {s}
        /\ layout' = layout /\ sections' = sections /\ s \in DOMAIN sections
        /\ offset' = [offset EXCEPT ![s] = x] /\ DOMAIN offset = DOMAIN sections
    BY DEF Place, input, Typed, TypeOK
  <1>2. /\ \A t \in todo : sections[t].segment = seg
        /\ placed = {t \in DOMAIN sections : sections[t].segment <= seg} \ todo
        /\ \A t \in placed :
             IF sections[t].segment = seg THEN InBounds(t, segments[seg].begin, ip) ELSE InOwn(t)
    BY DEF Placing
  <1>3. placed' = {t \in DOMAIN sections : sections[t].segment <= seg} \ todo'
    BY <1>1, <1>2 DEF Typed, TypeOK
  <1>4. ASSUME NEW t \in placed'
        PROVE  IF sections[t].segment = seg
                 THEN InBounds(t, segments[seg].begin, ip)' ELSE InOwn(t)'
    <2>1. CASE t = s
      BY <1>1, <1>2, <2>1 DEF InBounds
    <2>2. CASE t # s
      <3>1. t \in placed /\ t \in DOMAIN sections /\ offset'[t] = offset[t]
        BY <1>1, <2>2 DEF Typed, TypeOK
      <3>2. offset[t] \in Nat /\ sections[t].size \in Nat
        BY <3>1, SectionTypes
      <3> QED BY <1>1, <1>2, <3>1, <3>2 DEF InBounds, InOwn
    <2> QED BY <2>1, <2>2
  <1> QED BY <1>1, <1>2, <1>3, <1>4 DEF Placing, InBounds

LEMMA PlaceInHolePlaced ==
  ASSUME Typed, Tiling, Placed, PlaceInHole
  PROVE  Placed'
  <1>1. /\ phase = "fit" /\ fit = "fill" /\ phase' = "fit" /\ ip' = ip /\ ip \in Nat
        /\ segments[seg].begin \in Nat
    <2>1. phase = "fit" /\ fit = "fill" /\ phase' = "fit" /\ ip' = ip /\ ip \in Nat
      BY DEF PlaceInHole, Typed, TypeOK
    <2>2. seg \in 1 .. Len(segments)
      BY <2>1 DEF Typed, TypeOK, Shape
    <2> QED BY <2>1, <2>2, SegmentFields
  <1>2. PICK s \in todo, i \in DOMAIN holes :
          /\ Holds(holes[i], s)
          /\ Place(s, AlignUp(holes[i].start, sections[s].align))
          /\ holes' = RemoveAt(holes, i) \o Leftover(holes[i], s)
    BY DEF PlaceInHole, IsFirstHole
  <1> DEFINE h == holes[i]
             x == AlignUp(h.start, sections[s].align)
             kept == RemoveAt(holes, i)
             rest == Leftover(h, s)
  <1>3. h \in Hole /\ h.start \in Nat /\ h.size \in Nat
    BY HoleTypes
  <1>4. s \in DOMAIN sections /\ sections[s].size \in Nat /\ sections[s].align \in Nat
    BY SectionTypes DEF Typed, TypeOK
  <1>5. /\ x \in Nat /\ h.start <= x /\ x + sections[s].size <= h.start + h.size
        /\ rest \in Seq(Hole) /\ \A j \in DOMAIN rest : h.start <= rest[j].start
    <2> HIDE DEF h
    <2> QED BY <1>2, <1>3, <1>4, LeftoverProperties DEF h
  <1>6. \A j \in DOMAIN holes : segments[seg].begin <= holes[j].start
    BY <1>1 DEF Placed, Placing
  <1>7. h.start + h.size <= ip
    BY <1>1 DEF Tiling, Below
  <1>8. holes \in Seq(Hole) /\ kept \in Seq(Hole)
          /\ \A j \in DOMAIN kept : \E k \in DOMAIN holes : kept[j] = holes[k]
    <2>1. holes \in Seq(Hole)
      BY DEF Typed, TypeOK, Hole
    <2>2. /\ kept \in Seq(Hole) /\ Len(kept) = Len(holes) - 1
          /\ \A j \in DOMAIN kept : kept[j] = IF j < i THEN holes[j] ELSE holes[j + 1]
      BY <2>1, RemoveAtProperties
    <2> HIDE DEF kept
    <2>3. ASSUME NEW j \in DOMAIN kept PROVE \E k \in DOMAIN holes : kept[j] = holes[k]
      <3>1. j \in 1 .. Len(holes) - 1 /\ j \in DOMAIN holes /\ j + 1 \in DOMAIN holes
        BY <2>1, <2>2
      <3> QED BY <2>2, <3>1
    <2> QED BY <2>1, <2>2, <2>3
  <1> HIDE DEF h, x, kept, rest
  <1>9. ASSUME NEW j \in DOMAIN holes' PROVE segments[seg].begin <= holes'[j].start
    <2>1. holes' = kept \o rest
      BY <1>2 DEF kept, rest, h
    <2>2. j \in 1 .. Len(kept) + Len(rest)
      BY <1>5, <1>8, <2>1
    <2>3. CASE j \in 1 .. Len(kept)
      <3>1. holes'[j] = kept[j] /\ j \in DOMAIN kept
        BY <1>5, <1>8, <2>1, <2>3
      <3> QED BY <1>6, <1>8, <3>1
    <2>4. CASE j \in Len(kept) + 1 .. Len(kept) + Len(rest)
      <3>1. holes'[j] = rest[j - Len(kept)] /\ j - Len(kept) \in DOMAIN rest
        BY <1>5, <1>8, <2>1, <2>4
      <3>2. rest[j - Len(kept)] \in Hole /\ h.start <= rest[j - Len(kept)].start
        BY <1>5, <3>1, ElementOfSeq
      <3>3. segments[seg].begin <= h.start
        BY <1>6 DEF h
      <3> QED BY <1>1, <1>3, <3>1, <3>2, <3>3 DEF Hole
    <2> QED BY <1>5, <1>8, <2>2, <2>3, <2>4
  <1>10. segments[seg].begin <= x /\ x + sections[s].size <= ip'
    <2>1. segments[seg].begin <= h.start
      BY <1>6 DEF h
    <2> QED BY <1>1, <1>3, <1>4, <1>5, <1>7, <2>1
  <1>11. Placing'
    BY <1>1, <1>2, <1>5, <1>9, <1>10, PlacePlacing DEF Placed, x, h
  <1>12. Linking' /\ Ordering'
    BY <1>1, <1>2 DEF Linking, Ordering, Place, input
  <1> QED BY <1>11, <1>12 DEF Placed

LEMMA PlaceAtEndPlaced ==
  ASSUME Typed, Tiling, Placed, PlaceAtEnd
  PROVE  Placed'
  <1>1. PICK s \in todo :
          /\ IsNext(s)
          /\ Place(s, AlignUp(ip, sections[s].align))
          /\ holes' = IF fit = "fill" THEN holes \o NonEmpty(ip, Gap(ip, s)) ELSE holes
          /\ ip' = AlignUp(ip, sections[s].align) + sections[s].size
    BY DEF PlaceAtEnd
  <1> DEFINE x == AlignUp(ip, sections[s].align)
             gap == NonEmpty(ip, Gap(ip, s))
  <1>2. phase = "fit" /\ phase' \in {"fit", "crashed"} /\ ip \in Nat
    BY DEF PlaceAtEnd, Typed, TypeOK
  <1>3. segments[seg].begin \in Nat /\ segments[seg].begin <= ip
    <2>1. seg \in 1 .. Len(segments)
      BY <1>2 DEF Typed, TypeOK, Shape
    <2> QED BY <1>2, <2>1, SegmentFields DEF Typed, Shape
  <1>4. s \in DOMAIN sections /\ sections[s].size \in Nat /\ sections[s].align \in Nat
    BY SectionTypes DEF Typed, TypeOK
  <1>5. x \in Nat /\ ip <= x /\ Gap(ip, s) \in Int
    <2>1. x \in Nat /\ x >= ip
      BY <1>2, <1>4, AlignUpProperties
    <2>2. Gap(ip, s) = x - ip
      BY DEF Gap
    <2> HIDE DEF x
    <2> QED BY <1>2, <2>1, <2>2
  <1>6. gap \in Seq(Hole) /\ \A j \in DOMAIN gap : gap[j].start = ip
    <2>1. gap \in Seq(Hole) /\ \A j \in DOMAIN gap : gap[j] = [start |-> ip, size |-> Gap(ip, s)]
      BY <1>2, <1>5, NonEmptyProperties
    <2> QED BY <2>1
  <1> HIDE DEF gap, x
  <1>7. ip' \in Nat /\ ip <= ip' /\ segments[seg].begin <= x /\ x + sections[s].size <= ip'
    BY <1>1, <1>2, <1>3, <1>4, <1>5 DEF x
  <1>8. ASSUME NEW j \in DOMAIN holes' PROVE segments[seg].begin <= holes'[j].start
    <2>1. \A k \in DOMAIN holes : segments[seg].begin <= holes[k].start
      BY <1>2 DEF Placed, Placing
    <2>2. CASE fit = "fill"
      <3>1. holes' = holes \o gap /\ holes \in Seq(Hole)
        BY <1>1, <2>2 DEF gap, Typed, TypeOK, Hole
      <3>2. CASE j \in DOMAIN holes
        BY <1>6, <2>1, <3>1, <3>2
      <3>3. CASE j \notin DOMAIN holes
        <4>1. j - Len(holes) \in DOMAIN gap /\ holes'[j] = gap[j - Len(holes)]
          BY <1>6, <3>1, <3>3
        <4> QED BY <1>3, <1>6, <4>1
      <3> QED BY <3>2, <3>3
    <2>3. CASE fit # "fill"
      BY <1>1, <2>1, <2>3
    <2> QED BY <2>2, <2>3
  <1>9. Placing'
    BY <1>1, <1>2, <1>5, <1>7, <1>8, PlacePlacing DEF Placed, x
  <1>10. Linking'
    BY <1>1, <1>2 DEF Linking
  <1>11. Ordering'
    <2> SUFFICES ASSUME fit = "simple" PROVE Ordering'
      BY <1>1 DEF Ordering, Place, input
    <2>1. /\ seg' = seg /\ todo' = todo \ {s} /\ placed' = placed \cup {s}
          /\ sections' = sections /\ fit' = fit /\ s \notin placed
          /\ offset' = [offset EXCEPT ![s] = x] /\ DOMAIN offset = DOMAIN sections
          /\ placed \subseteq DOMAIN sections /\ todo \subseteq DOMAIN sections
      BY <1>1, <1>2 DEF Place, input, Typed, TypeOK, Placed, Placing, x
    <2>2. \A t \in todo \ {s} : s < t
      BY <1>1 DEF IsNext, Before
    <2>3. \A t \in placed : sections[t].segment = seg => t < s
      BY <1>2 DEF Placed, Ordering
    <2>4. sections[s].segment = seg
      BY <1>2 DEF Placed, Placing
    <2>5. \A t \in placed : t \in Nat /\ offset[t] + sections[t].size <= ip /\ offset'[t] = offset[t]
                              /\ offset[t] \in Nat /\ sections[t].size \in Nat
      BY <1>2, <2>1, SectionFields, SectionTypes DEF Tiling, Below
    <2>6. s \in Nat /\ offset'[s] = x
      BY <2>1, <1>4, SectionFields
    <2>7. ASSUME NEW p \in placed', NEW t \in placed', p < t,
                 sections[p].segment = sections[t].segment
          PROVE  offset'[p] + sections[p].size <= offset'[t]
      <3>1. CASE p \in placed /\ t \in placed
        BY <2>5, <2>7, <3>1 DEF Placed, Ordering
      <3>2. CASE p \in placed /\ t = s
        BY <1>2, <1>5, <2>5, <2>6, <3>2
      <3>3. CASE p = s /\ t \in placed
        <4>1. t < s /\ s < t /\ s \in Nat /\ t \in Nat
          BY <2>3, <2>4, <2>5, <2>6, <2>7, <3>3
        <4> QED BY <4>1
      <3>4. CASE p = s /\ t = s
        BY <2>6, <2>7, <3>4
      <3> QED BY <2>1, <3>1, <3>2, <3>3, <3>4
    <2>8. ASSUME NEW p \in placed', NEW t \in todo', sections[p].segment = seg PROVE p < t
      BY <1>2, <2>1, <2>2, <2>8 DEF Placed, Ordering
    <2> QED BY <2>1, <2>7, <2>8 DEF Ordering
  <1> QED BY <1>9, <1>10, <1>11 DEF Placed

---------------------------------------------------------------------------
(* link. *)

(* An origin segment that gets a size holds no section that has one. *)
LEMMA LinkSegmentPlaced ==
  ASSUME Typed, Placed, LinkSegment
  PROVE  Placed'
  <1>1. /\ phase = "origin" /\ phase' = "origin" /\ seg \in 1 .. Len(layout) /\ seg' = seg + 1
        /\ UNCHANGED <<todo, holes, offset, placed>>
        /\ layout' = layout /\ sections' = sections /\ fit' = fit
        /\ segments \in Seq(Bounds) /\ Len(segments) = Len(layout)
        /\ segments' = [segments EXCEPT ![seg] = LinkedBounds]
    BY DEF LinkSegment, Typed, TypeOK, Shape, input
  <1>2. Placing' /\ Ordering'
    BY <1>1 DEF Placed, Placing, Ordering
  <1>3. ASSUME ~HasBloat, NEW s \in DOMAIN sections, sections[s].size > 0
        PROVE  InOwn(s)' /\ (sections[s].segment < seg + 1 => ~IsOrigin(sections[s].segment))
    <2> DEFINE i == sections[s].segment
    <2>1. i \in 1 .. Len(layout) /\ sections[s].size \in Nat
      BY SectionFields
    <2>2. InOwn(s) /\ (i < seg => ~IsOrigin(i))
      BY <1>1, <1>3 DEF Placed, Linking
    <2>3. i = seg => ~IsOrigin(seg)
      <3> SUFFICES ASSUME i = seg, IsOrigin(seg) PROVE FALSE
        OBVIOUS
      <3>1. SizeOf(seg) = 0
        BY DEF LinkSegment, MayLink
      <3>2. segments[seg].begin \in Nat /\ segments[seg].end \in Nat
        BY <1>1, SegmentFields
      <3>3. offset[s] \in Int
        BY DEF Typed, TypeOK, None
      <3> QED BY <1>3, <2>1, <2>2, <3>1, <3>2, <3>3 DEF InOwn, InBounds, SizeOf
    <2>4. segments'[i] = segments[i]
      BY <1>1, <2>1, <2>3 DEF LinkedBounds
    <2>5. InOwn(s)'
      BY <1>1, <2>2, <2>4 DEF InOwn, InBounds
    <2> QED BY <1>1, <2>1, <2>2, <2>3, <2>5
  <1>4. Linking'
    BY <1>1, <1>3 DEF Placed, Linking, HasBloat, IsOrigin
  <1> QED BY <1>2, <1>4 DEF Placed

LEMMA RestPlaced ==
  ASSUME Typed, Placed, LinkFails \/ StartRom \/ CopySection \/ Finish \/ UNCHANGED vars
  PROVE  Placed'
  <1>1. CASE LinkFails
    BY <1>1, StopPlaced DEF LinkFails
  <1>2. CASE StartRom
    <2>1. \A s \in DOMAIN sections : sections[s].segment < seg
      BY <1>2, SectionFields DEF StartRom, Typed, TypeOK
    <2> QED BY <1>2, <2>1 DEF StartRom, input, Placed, Placing, Linking, Ordering, InOwn,
               InBounds, HasBloat, IsOrigin
  <1>3. CASE CopySection
    <2>1. phase = "rom" /\ phase' \in {"rom", "crashed"}
            /\ UNCHANGED <<input, seg, offset, placed, segments>>
      BY <1>3 DEF CopySection
    <2> QED BY <2>1 DEF input, Placed, Placing, Linking, Ordering, InOwn, InBounds, HasBloat, IsOrigin
  <1>4. CASE Finish
    BY <1>4 DEF Finish, input, Placed, Placing, Linking, Ordering, InOwn, InBounds, HasBloat, IsOrigin
  <1>5. CASE UNCHANGED vars
    BY <1>5 DEF vars, Placed, Placing, Linking, Ordering, InOwn, InBounds, HasBloat, IsOrigin
  <1> QED BY <1>1, <1>2, <1>3, <1>4, <1>5

---------------------------------------------------------------------------
LEMMA NextPlaced == Typed /\ Tiling /\ Placed /\ [Next]_vars => Placed'
  <1> SUFFICES ASSUME Typed, Tiling, Placed, [Next]_vars PROVE Placed'
    OBVIOUS
  <1>1. CASE SegmentOverflow \/ EndOverflow
    BY <1>1, TryFailsPlaced DEF SegmentOverflow, EndOverflow
  <1> QED BY <1>1, BeginSegmentPlaced, EndSegmentPlaced, PlaceInHolePlaced, PlaceAtEndPlaced,
             EndTryPlaced, LinkSegmentPlaced, RestPlaced DEF Next

LEMMA AllPlaced == Spec => []Placed
  BY InitTypes, NextTypes, InitTiling, NextTiling, InitPlaced, NextPlaced, PTL DEF Spec

(* The simple strategy keeps the sections of a segment in the order of the *)
(* command line (fitSectionsSimple).                                       *)
THEOREM OrderKept == Spec => []SimpleKeepsOrder
  <1>1. Placed => SimpleKeepsOrder
    BY DEF Placed, Ordering, SimpleKeepsOrder
  <1> QED BY <1>1, AllPlaced, PTL

(* In a layout that does not bloat a section that has bytes lies inside    *)
(* its segment, which keeps no room for another, once link has placed the  *)
(* sections into segments.                                                 *)
THEOREM SectionsInside == Spec => []SectionsInSegments
  <1>1. Typed /\ Placed => SectionsInSegments
    BY DEF Placed, Linking, SectionsInSegments, SectionsPlaced, Linked, InOwn, InBounds
  <1> QED BY <1>1, AllPlaced, InitTypes, NextTypes, PTL DEF Spec

---------------------------------------------------------------------------
(* The image.                                                              *)

(* Layouts name each other's segments in pairs, as the files of layouts do. *)
ShadowsMatch ==
  \A l \in Layouts : \A i \in 1 .. Len(l) :
    l[i].shadow # 0 => l[i].shadow # i /\ l[l[i].shadow].target = i

(* The first n segments have been linked: they lie one behind the other,   *)
(* and an origin segment is as large as its target.                        *)
InARow(n) ==
  /\ \A i, j \in 1 .. n : i < j => segments[i].end <= segments[j].begin
  /\ \A i \in 1 .. n :
       IsOrigin(i) /\ ~IsOrigin(layout[i].target) => SizeOf(i) = SizeOf(layout[i].target)

Written ==
  \A s \in DOMAIN sections \ todo : \A i \in Bytes(s) : \A x \in Copies(s, i) :
    x \in DOMAIN rom /\ rom[x] = <<s, i>>

Image ==
  ~HasBloat =>
    /\ phase = "origin" => InARow(seg - 1) /\ \A i \in 1 .. seg - 1 : segments[i].end <= ip
    /\ phase \in {"rom", "done"} => InARow(Len(layout)) /\ Written
    /\ phase = "done" => todo = {}

---------------------------------------------------------------------------
(* link. *)

LEMMA LayoutFields ==
  ASSUME Typed
  PROVE  /\ Len(layout) \in Nat \ {0} /\ layout \in Layouts
         /\ \A i \in 1 .. Len(layout) :
              layout[i].target \in 0 .. Len(layout) /\ layout[i].shadow \in 0 .. Len(layout)
  BY InputTypes DEF Typed, TypeOK

LEMMA SegmentOrder ==
  ASSUME Typed, NEW i \in 1 .. Len(segments)
  PROVE  segments[i].begin <= segments[i].end
  BY DEF Typed, Shape, Ordered, TypeOK

LEMMA StartLinkImage ==
  ASSUME phase' = "origin", seg' = 1
  PROVE  Image'
  BY DEF Image, InARow

LEMMA LinkSegmentImage ==
  ASSUME Typed, Image, LinkSegment
  PROVE  Image'
  <1>1. /\ phase = "origin" /\ phase' = "origin" /\ seg \in 1 .. Len(layout) /\ seg' = seg + 1
        /\ layout' = layout /\ sections' = sections
        /\ segments \in Seq(Bounds) /\ Len(segments) = Len(layout) /\ ip \in Nat
        /\ segments' = [segments EXCEPT ![seg] = LinkedBounds] /\ ip' = LinkedBounds.end
        /\ MayLink
    BY DEF LinkSegment, Typed, TypeOK, Shape, input
  <1> SUFFICES ASSUME ~HasBloat
               PROVE  InARow(seg - 1)' /\ \A i \in 1 .. (seg' - 1) : segments'[i].end <= ip'
    BY <1>1 DEF Image, HasBloat
  <1>2. Len(layout) \in Nat /\ \A i \in 1 .. Len(layout) :
          /\ segments[i].begin \in Nat /\ segments[i].end \in Nat
          /\ segments[i].begin <= segments[i].end
          /\ layout[i].target \in 0 .. Len(layout)
    BY <1>1, LayoutFields, SegmentFields, SegmentOrder
  <1>3. \A i \in 1 .. Len(layout) : i # seg => segments'[i] = segments[i]
    BY <1>1
  <1>4. segments'[seg] = LinkedBounds
    BY <1>1
  <1>5. /\ ip <= segments'[seg].begin /\ segments'[seg].begin <= segments'[seg].end
        /\ segments'[seg].begin \in Nat /\ segments'[seg].end \in Nat
    <2>1. CASE IsOrigin(seg)
      <3>1. layout[seg].target \in 1 .. Len(layout)
        BY <1>1, <1>2, <2>1 DEF IsOrigin
      <3> QED BY <1>1, <1>2, <1>4, <2>1, <3>1 DEF LinkedBounds, SizeOf
    <2>2. CASE ~IsOrigin(seg)
      BY <1>1, <1>2, <1>4, <2>2 DEF LinkedBounds, MayLink
    <2> QED BY <2>1, <2>2
  <1>6. InARow(seg - 1) /\ \A i \in 1 .. seg - 1 : segments[i].end <= ip
    BY <1>1 DEF Image
  <1>7. ASSUME NEW i \in 1 .. seg, NEW j \in 1 .. seg, i < j
        PROVE  segments'[i].end <= segments'[j].begin
    <2>1. i \in 1 .. seg - 1 /\ i # seg /\ i \in 1 .. Len(layout)
      BY <1>1, <1>7
    <2>2. CASE j = seg
      BY <1>2, <1>3, <1>5, <1>6, <2>1, <2>2, <1>1
    <2>3. CASE j # seg
      <3>1. j \in 1 .. seg - 1 /\ j \in 1 .. Len(layout)
        BY <1>1, <2>3
      <3> QED BY <1>3, <1>6, <1>7, <2>1, <2>3, <3>1 DEF InARow
    <2> QED BY <2>2, <2>3
  <1>8. ASSUME NEW i \in 1 .. seg, IsOrigin(i), ~IsOrigin(layout[i].target)
        PROVE  SizeOf(i)' = SizeOf(layout[i].target)'
    <2> DEFINE t == layout[i].target
    <2>1. i \in 1 .. Len(layout) /\ t \in 1 .. Len(layout) /\ t # i
      BY <1>1, <1>2, <1>8 DEF IsOrigin
    <2>2. SizeOf(t)' = SizeOf(t)
      <3>1. segments'[t] = segments[t]
        BY <1>3, <1>4, <1>8, <2>1 DEF LinkedBounds
      <3> QED BY <1>1, <3>1 DEF SizeOf
    <2>3. CASE i = seg
      <3>1. segments'[i].begin = ip /\ segments'[i].end = ip + SizeOf(t)
        BY <1>4, <1>8, <2>3 DEF LinkedBounds
      <3>2. SizeOf(t) \in Int
        BY <1>2, <2>1 DEF SizeOf
      <3>3. SizeOf(i)' = segments'[i].end - segments'[i].begin
        BY DEF SizeOf
      <3> QED BY <1>1, <2>2, <3>1, <3>2, <3>3
    <2>4. CASE i # seg
      <3>1. i \in 1 .. seg - 1
        BY <1>1, <2>4
      <3>2. SizeOf(i) = SizeOf(t)
        BY <1>6, <1>8, <3>1 DEF InARow
      <3>3. SizeOf(i)' = SizeOf(i)
        BY <1>3, <2>1, <2>4 DEF SizeOf
      <3> QED BY <2>2, <3>2, <3>3
    <2> QED BY <1>1, <2>3, <2>4
  <1>9. ASSUME NEW i \in 1 .. seg PROVE segments'[i].end <= ip'
    <2>1. CASE i = seg
      BY <1>1, <1>4, <1>5, <2>1
    <2>2. CASE i # seg
      BY <1>1, <1>2, <1>3, <1>4, <1>5, <1>6, <2>2
    <2> QED BY <2>1, <2>2
  <1>10. 1 .. (seg' - 1) = 1 .. seg
    BY <1>1
  <1> QED BY <1>1, <1>7, <1>8, <1>9, <1>10 DEF InARow, IsOrigin

---------------------------------------------------------------------------
(* createRom. *)

(* Everything about the layout that createRom relies on. *)
Ready ==
  /\ InARow(Len(layout)) /\ PlacedApart /\ placed = DOMAIN sections
  /\ \A s \in DOMAIN sections :
       sections[s].size > 0 => InOwn(s) /\ ~IsOrigin(sections[s].segment)

LEMMA RomReady ==
  ASSUME Typed, Tiling, Placed, Image, ~HasBloat, phase \in {"rom", "done"}
  PROVE  Ready
  BY DEF Ready, Tiling, Placed, Linking, Image

Within(p, x) == segments[p].begin <= x /\ x < segments[p].end

LEMMA OneSegment ==
  ASSUME Typed, InARow(Len(layout)), Len(segments) = Len(layout),
         NEW p \in 1 .. Len(layout), NEW q \in 1 .. Len(layout), NEW x \in Int,
         Within(p, x), Within(q, x)
  PROVE  p = q
  <1>1. /\ segments[p].begin \in Nat /\ segments[p].end \in Nat
        /\ segments[q].begin \in Nat /\ segments[q].end \in Nat
    BY SegmentFields
  <1>2. Len(layout) \in Nat
    BY LayoutFields
  <1> QED BY <1>1, <1>2 DEF InARow, Within

(* A byte goes to its own address, or to its place in the origin segment. *)
AtHome(s, i, x) == x = offset[s] + i /\ Within(sections[s].segment, x)
InShadow(s, i, x) ==
  LET a == SegmentOf(s).shadow
  IN  /\ a \in 1 .. Len(layout) /\ IsOrigin(a) /\ layout[a].target = sections[s].segment
      /\ x = segments[a].begin + (offset[s] + i - Begin(s)) /\ Within(a, x)

LEMMA CopyPlace ==
  ASSUME ShadowsMatch, Typed, Ready, Len(segments) = Len(layout),
         NEW s \in DOMAIN sections, NEW i \in Bytes(s), NEW x \in Copies(s, i)
  PROVE  x \in Int /\ (AtHome(s, i, x) \/ InShadow(s, i, x))
  <1> DEFINE g == sections[s].segment
             a == SegmentOf(s).shadow
  <1>1. /\ g \in 1 .. Len(layout) /\ sections[s].size \in Nat /\ offset[s] \in Nat
        /\ Len(layout) \in Nat
    BY SectionFields, SectionTypes, LayoutFields DEF Ready
  <1>2. i \in Nat /\ i < sections[s].size
    BY <1>1 DEF Bytes
  <1>3. InOwn(s) /\ ~IsOrigin(g)
    BY <1>1, <1>2 DEF Ready
  <1>4. segments[g].begin \in Nat /\ segments[g].end \in Nat
    BY <1>1, SegmentFields
  <1>5. segments[g].begin <= offset[s] + i /\ offset[s] + i < segments[g].end
    BY <1>1, <1>2, <1>3, <1>4 DEF InOwn, InBounds
  <1>6. CASE x = offset[s] + i
    BY <1>1, <1>2, <1>5, <1>6 DEF AtHome, Within
  <1>7. CASE a # 0 /\ x = Index(ShadowOf(s) + i)
    <2>1. a \in 1 .. Len(layout) /\ layout[a].target = g
      BY <1>1, <1>7, LayoutFields DEF ShadowsMatch, SegmentOf
    <2>2. IsOrigin(a)
      BY <1>1, <2>1 DEF IsOrigin
    <2>3. SizeOf(a) = SizeOf(g)
      BY <1>3, <2>1, <2>2 DEF Ready, InARow
    <2>4. segments[a].begin \in Nat /\ segments[a].end \in Nat
      BY <2>1, SegmentFields
    <2> DEFINE k == segments[a].begin
               o == offset[s]
               m == Begin(s)
               e == segments[a].end
    <2>5. /\ k \in Nat /\ e \in Nat /\ o \in Nat /\ m \in Nat
          /\ m <= o + i /\ o + i < m + (e - k)
      <3>1. Begin(s) = segments[g].begin /\ e - k = segments[g].end - segments[g].begin
        BY <2>3 DEF Begin, SizeOf
      <3> QED BY <1>1, <1>2, <1>4, <1>5, <2>4, <3>1
    <2>6. ShadowOf(s) = k + o - m
      BY DEF ShadowOf
    <2> HIDE DEF k, o, m, e
    <2>7. x = k + (o + i - m) /\ x \in Int /\ k <= x /\ x < e
      <3>1. ShadowOf(s) + i = k + (o + i - m) /\ k + (o + i - m) >= k
        BY <1>2, <2>5, <2>6
      <3>2. ~(ShadowOf(s) + i < 0)
        BY <1>2, <2>5, <3>1
      <3>3. x = k + (o + i - m)
        BY <1>7, <3>1, <3>2 DEF Index
      <3> QED BY <1>2, <2>5, <3>3
    <2> QED BY <2>1, <2>2, <2>7 DEF InShadow, Within, k, o, m, e
  <1> QED BY <1>6, <1>7 DEF Copies

(* Two bytes that are written to one address are the same byte. *)
LEMMA CopiesApart ==
  ASSUME ShadowsMatch, Typed, Ready, Len(segments) = Len(layout),
         NEW s \in DOMAIN sections, NEW i \in Bytes(s),
         NEW t \in DOMAIN sections, NEW j \in Bytes(t),
         NEW x, x \in Copies(s, i), x \in Copies(t, j)
  PROVE  s = t /\ i = j
  <1> DEFINE g == sections[s].segment
             h == sections[t].segment
             a == SegmentOf(s).shadow
             b == SegmentOf(t).shadow
  <1>1. x \in Int /\ (AtHome(s, i, x) \/ InShadow(s, i, x))
    BY CopyPlace
  <1>2. x \in Int /\ (AtHome(t, j, x) \/ InShadow(t, j, x))
    BY CopyPlace
  <1>3. /\ g \in 1 .. Len(layout) /\ sections[s].size \in Nat /\ offset[s] \in Nat
        /\ h \in 1 .. Len(layout) /\ sections[t].size \in Nat /\ offset[t] \in Nat
    BY SectionFields, SectionTypes DEF Ready
  <1>4. i \in Nat /\ i < sections[s].size /\ j \in Nat /\ j < sections[t].size
    BY <1>3 DEF Bytes
  <1>5. ~IsOrigin(g) /\ ~IsOrigin(h)
    BY <1>3, <1>4 DEF Ready
  <1>6. offset[s] + i = offset[t] + j => s = t /\ i = j
    <2> SUFFICES ASSUME offset[s] + i = offset[t] + j, s # t PROVE FALSE
      BY <1>3, <1>4
    <2>1. Apart(offset[s], sections[s].size, offset[t], sections[t].size)
      BY DEF Ready, PlacedApart
    <2>2. \/ offset[s] + sections[s].size <= offset[t]
          \/ offset[t] + sections[t].size <= offset[s]
      BY <2>1 DEF Apart
    <2> QED BY <1>3, <1>4, <2>2
  <1>7. CASE AtHome(s, i, x) /\ AtHome(t, j, x)
    BY <1>6, <1>7 DEF AtHome
  <1>8. CASE AtHome(s, i, x) /\ InShadow(t, j, x)
    <2>1. g = b
      BY <1>1, <1>3, <1>8, OneSegment DEF AtHome, InShadow, Ready
    <2> QED BY <1>5, <1>8, <2>1 DEF InShadow
  <1>9. CASE InShadow(s, i, x) /\ AtHome(t, j, x)
    <2>1. h = a
      BY <1>1, <1>3, <1>9, OneSegment DEF AtHome, InShadow, Ready
    <2> QED BY <1>5, <1>9, <2>1 DEF InShadow
  <1>10. CASE InShadow(s, i, x) /\ InShadow(t, j, x)
    <2>1. a = b /\ a \in 1 .. Len(layout)
      BY <1>1, <1>10, OneSegment DEF InShadow, Ready
    <2>2. g = h /\ Begin(s) = Begin(t)
      BY <1>10, <2>1 DEF InShadow, Begin
    <2>3. segments[a].begin \in Nat /\ Begin(s) \in Nat
      BY <1>3, <2>1, SegmentFields DEF Begin
    <2> DEFINE k == segments[a].begin
               m == Begin(s)
               y == offset[s]
               z == offset[t]
    <2>4. y \in Int /\ z \in Int /\ k \in Int /\ m \in Int
      BY <1>3, <2>3
    <2>5. x = k + (y + i - m)
      BY <1>10 DEF InShadow
    <2>6. x = k + (z + j - m)
      BY <1>10, <2>1, <2>2 DEF InShadow
    <2> HIDE DEF k, m, y, z
    <2>7. y + i = z + j
      BY <1>1, <1>4, <2>4, <2>5, <2>6
    <2> QED BY <1>6, <2>7 DEF y, z
  <1> QED BY <1>1, <1>2, <1>7, <1>8, <1>9, <1>10

LEMMA StartRomImage ==
  ASSUME Typed, Image, StartRom
  PROVE  Image'
  <1>1. /\ phase = "origin" /\ phase' = "rom" /\ seg - 1 = Len(layout)
        /\ layout' = layout /\ sections' = sections /\ segments' = segments
        /\ todo' = DOMAIN sections
    BY LayoutFields DEF StartRom, input
  <1> SUFFICES ASSUME ~HasBloat PROVE InARow(Len(layout))' /\ Written'
    BY <1>1 DEF Image, HasBloat
  <1>2. InARow(Len(layout))
    BY <1>1 DEF Image
  <1> QED BY <1>1, <1>2 DEF InARow, IsOrigin, SizeOf, Written

LEMMA CopySectionImage ==
  ASSUME ShadowsMatch, Typed, Tiling, Placed, Image, CopySection
  PROVE  Image'
  <1>1. /\ phase = "rom" /\ phase' \in {"rom", "crashed"}
        /\ layout' = layout /\ sections' = sections /\ segments' = segments /\ offset' = offset
    BY DEF CopySection, input
  <1> SUFFICES ASSUME ~HasBloat, phase' = "rom" PROVE InARow(Len(layout))' /\ Written'
    BY <1>1 DEF Image, HasBloat
  <1>2. Ready /\ Written /\ Len(segments) = Len(layout)
    BY <1>1, RomReady DEF Image, Typed, Shape
  <1>3. InARow(Len(layout))'
    BY <1>1, <1>2 DEF Ready, InARow, IsOrigin, SizeOf
  <1>4. PICK s \in todo :
          /\ todo' = todo \ {s}
          /\ rom' = [x \in DOMAIN rom |->
                       IF \E i \in Bytes(s) : x \in Copies(s, i)
                         THEN <<s, CHOOSE i \in Bytes(s) : x \in Copies(s, i)>>
                         ELSE rom[x]]
          /\ \A i \in Bytes(s) : Copies(s, i) \subseteq DOMAIN rom
    BY DEF CopySection
  <1>5. s \in DOMAIN sections
    BY DEF Typed, TypeOK
  <1>6. ASSUME NEW t \in DOMAIN sections \ todo', NEW i \in Bytes(t), NEW x \in Copies(t, i)
        PROVE  x \in DOMAIN rom' /\ rom'[x] = <<t, i>>
    <2>1. CASE t = s
      <3>1. x \in DOMAIN rom
        BY <1>4, <2>1
      <3> DEFINE j == CHOOSE j \in Bytes(s) : x \in Copies(s, j)
      <3>2. j \in Bytes(s) /\ x \in Copies(s, j)
        BY <2>1
      <3>3. rom'[x] = <<s, j>>
        BY <1>4, <2>1, <3>1
      <3> HIDE DEF j
      <3>4. j = i
        BY <1>2, <1>5, <2>1, <3>2, CopiesApart
      <3> QED BY <1>4, <2>1, <3>1, <3>3, <3>4
    <2>2. CASE t # s
      <3>1. x \in DOMAIN rom /\ rom[x] = <<t, i>>
        BY <1>2, <1>4, <2>2 DEF Written
      <3>2. ~\E j \in Bytes(s) : x \in Copies(s, j)
        BY <1>2, <1>5, <2>2, CopiesApart
      <3> QED BY <1>4, <3>1, <3>2
    <2> QED BY <2>1, <2>2
  <1>7. Written'
    BY <1>1, <1>6 DEF Written, Bytes, Copies, SegmentOf, ShadowOf, Begin
  <1> QED BY <1>3, <1>7

LEMMA FinishImage ==
  ASSUME Image, Finish \/ UNCHANGED vars
  PROVE  Image'
  <1>1. CASE Finish
    BY <1>1 DEF Finish, input, Image, HasBloat, InARow, IsOrigin, SizeOf, Written, Bytes, Copies,
       SegmentOf, ShadowOf, Begin
  <1>2. CASE UNCHANGED vars
    BY <1>2 DEF vars, Image, HasBloat, InARow, IsOrigin, SizeOf, Written, Bytes, Copies,
       SegmentOf, ShadowOf, Begin
  <1> QED BY <1>1, <1>2

---------------------------------------------------------------------------
LEMMA BisectImage ==
  ASSUME NEW STATE size, NEW STATE lower, NEW STATE upper, NEW STATE found,
         Bisect(size, lower, upper, found)
  PROVE  Image'
  BY StartLinkImage DEF Bisect, StartTry, StartLink, Stop, Image

LEMMA EndOfTryImage ==
  ASSUME TryFails \/ TrySucceeds
  PROVE  Image'
  <1>1. CASE Stop("failed")
    BY <1>1 DEF Stop, Image
  <1>2. CASE StartLink(segments)
    BY <1>2, StartLinkImage DEF StartLink
  <1> QED BY <1>1, <1>2, BisectImage DEF TryFails, TrySucceeds

LEMMA NextImage ==
  ASSUME ShadowsMatch
  PROVE  Typed /\ Tiling /\ Placed /\ Image /\ [Next]_vars => Image'
  <1> SUFFICES ASSUME Typed, Tiling, Placed, Image, [Next]_vars PROVE Image'
    OBVIOUS
  <1>1. CASE SegmentOverflow \/ EndOverflow \/ EndTry
    BY <1>1, EndOfTryImage DEF SegmentOverflow, EndOverflow, EndTry
  <1>2. CASE BeginSegment \/ PlaceInHole \/ PlaceAtEnd \/ EndSegment \/ LinkFails
    <2>1. phase' \in {"fit", "segment", "crashed", "failed"}
      BY <1>2 DEF BeginSegment, PlaceInHole, PlaceAtEnd, EndSegment, LinkFails, Stop
    <2> QED BY <2>1 DEF Image
  <1> QED BY <1>1, <1>2, LinkSegmentImage, StartRomImage, CopySectionImage, FinishImage DEF Next

(* The image of a program that links in a layout that does not bloat holds *)
(* every byte of every section that has a place in it (createRom).         *)
THEOREM ImageComplete ==
  ASSUME ShadowsMatch
  PROVE  Spec => []RomComplete
  <1>1. Init => Image
    BY DEF Init, Image
  <1>2. Typed /\ Image => RomComplete
    BY DEF Image, Written, RomComplete
  <1> QED BY <1>1, <1>2, InitTypes, NextTypes, InitTiling, NextTiling, InitPlaced, NextPlaced,
             NextImage, PTL DEF Spec

=============================================================================
