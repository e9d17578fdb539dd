------------------------------- MODULE Linker -------------------------------
(***************************************************************************)
(* The layout of a program by tools/link.py: sections are fitted into the  *)
(* segments of a layout (tryFitSections, with fitSectionsFill or           *)
(* fitSectionsSimple), a segment that may grow ("bloat") by bisection over *)
(* its size (fitSections), origin segments get the size of their targets   *)
(* (link), and the bytes are copied into the ROM image (createRom).        *)
(*                                                                         *)
(* sections are those the sections filter keeps, in the order of the       *)
(* command line.  The offset field of a section survives from one try of   *)
(* the bisection to the next, as in the code.                              *)
(***************************************************************************)
EXTENDS Integers, Sequences, SequencesExt

CONSTANTS
  AddrSpace,  (* 65536 in the machine                                     *)
  Programs,   (* sequences of sections [segment, size, align]             *)
  Layouts     (* sequences of segments, in the order of the layout file   *)

None == -1    (* a field the layout file leaves out *)
Bloat == -2   (* "bloat" as the end of a segment    *)

Section(n) == [segment : 1 .. n, size : Nat, align : Nat]

(* A target is the segment an origin segment keeps room for; a shadow is   *)
(* the segment that holds the initial contents of this one.                *)
Segment(n) ==
  [begin : Nat \cup {None}, minBegin : Nat \cup {None},
   end : Nat \cup {None, Bloat}, target : 0 .. n, shadow : 0 .. n,
   init : BOOLEAN]

ASSUME AddrSpaceAssumption == AddrSpace \in Nat \ {0}
ASSUME LayoutsAssumption ==
  \A l \in Layouts : l \in Seq(Segment(Len(l))) /\ l # <<>>
ASSUME ProgramsAssumption ==
  \A p \in Programs, l \in Layouts : p \in Seq(Section(Len(l))) /\ p # <<>>

VARIABLES
  layout, sections, fit,  (* the inputs: layout, program, fit strategy   *)
  phase,     (* what the linker is doing                                  *)
  seg,       (* the segment at hand                                       *)
  todo,      (* sections still to place in it, or to copy                 *)
  ip,        (* the next free address                                     *)
  holes,     (* alignment gaps left behind in this segment                *)
  offset,    (* where each section was last placed                        *)
  placed,    (* history: the sections placed in this try                  *)
  segments,  (* bounds of the segments laid out                           *)
  bisect,    (* size of the bloat segment, and its limits                 *)
  best,      (* bounds of the last try that succeeded, or <<>>            *)
  rom        (* what each address of the image holds                      *)

input == <<layout, sections, fit>>
vars == <<layout, sections, fit, phase, seg, todo, ip, holes, offset, placed,
          segments, bisect, best, rom>>

HasBloat == \E i \in DOMAIN layout : layout[i].end = Bloat
Bounds == [begin : Nat, end : Nat]
Phases == {"segment", "fit", "origin", "rom", "done", "failed", "crashed"}

TypeOK ==
  /\ layout \in Layouts /\ sections \in Programs /\ fit \in {"fill", "simple"}
  /\ phase \in Phases
  /\ seg \in 1 .. Len(layout) + 1
  /\ todo \subseteq DOMAIN sections
  /\ ip \in Nat
  /\ holes \in Seq([start : Nat, size : Nat])
  /\ offset \in [DOMAIN sections -> Nat \cup {None}]
  /\ placed \subseteq DOMAIN sections
  /\ \A s \in placed : offset[s] # None
  /\ segments \in Seq(Bounds) /\ Len(segments) <= Len(layout)
  /\ bisect \in [size : Nat, lower : Nat, upper : Nat]
  /\ best \in Seq(Bounds)
  /\ DOMAIN rom = 0 .. AddrSpace - 1

---------------------------------------------------------------------------
(* Arithmetic. *)

AlignUp(x, a) ==
  IF a = 0 \/ x % a = 0 THEN x ELSE (x \div a + 1) * a
Gap(x, s) == AlignUp(x, sections[s].align) - x
MaxOf(x, y) == IF x > y THEN x ELSE y

(* fill places wide alignments first, simple keeps the order given.        *)
(* Mutant: simple takes any section next.                                  *)
BeforeAny(s, t) ==
  \/ fit = "fill" /\ sections[s].align > sections[t].align
  \/ fit = "fill" => sections[s].align = sections[t].align /\ s < t
Before(s, t) ==
  \/ fit = "fill" /\ sections[s].align > sections[t].align
  \/ /\ fit = "fill" => sections[s].align = sections[t].align
     /\ s < t
IsNext(s) == \A t \in todo \ {s} : Before(s, t)

(* Mutant: a hole that need not hold the alignment gap. *)
HoldsUnaligned(h, s) == h.size >= sections[s].size
Holds(h, s) == h.size >= sections[s].size + Gap(h.start, s)
IsFirstHole(i, s) ==
  Holds(holes[i], s) /\ \A j \in 1 .. i - 1 : ~Holds(holes[j], s)

NonEmpty(x, n) == IF n > 0 THEN <<[start |-> x, size |-> n]>> ELSE <<>>

(* What section s leaves of hole h.  Mutant: a tail as long as if there    *)
(* were no gap before the section.                                         *)
LeftoverLong(h, s) ==
  LET gap == Gap(h.start, s)
  IN  NonEmpty(h.start, gap)
        \o NonEmpty(h.start + gap + sections[s].size, h.size - sections[s].size)
Leftover(h, s) ==
  LET gap == Gap(h.start, s)
  IN  NonEmpty(h.start, gap)
        \o NonEmpty(h.start + gap + sections[s].size, h.size - gap - sections[s].size)

---------------------------------------------------------------------------
(* One try: tryFitSections. *)

(* Mutant: the bounds of the try before are kept. *)
StartTryKeeping ==
  /\ phase' = "segment"
  /\ seg' = 1 /\ ip' = 0
  /\ todo' = {} /\ holes' = <<>> /\ placed' = {}
  /\ UNCHANGED segments

StartTry ==
  /\ phase' = "segment"
  /\ seg' = 1 /\ ip' = 0
  /\ todo' = {} /\ holes' = <<>> /\ placed' = {} /\ segments' = <<>>

(* What link does after fitSections has returned the bounds b. *)
StartLink(b) ==
  /\ phase' = "origin"
  /\ seg' = 1 /\ ip' = 0
  /\ segments' = b
  /\ UNCHANGED <<todo, holes, placed>>

Stop(outcome) ==
  /\ phase' = outcome
  /\ UNCHANGED <<seg, ip, todo, holes, placed, segments>>

(* fitSections: the loop over sizes goes on until no size lies strictly    *)
(* between the limits.  Mutant: it looks at the upper limit alone.         *)
NoUpperLeft(size, lower, upper) == size = upper
NoSizeLeft(size, lower, upper) == size \in {lower, upper}

Bisect(size, lower, upper, found) ==
  /\ bisect' = [size |-> size, lower |-> lower, upper |-> upper]
  /\ best' = found
  /\ \/ ~NoSizeLeft(size, lower, upper) /\ StartTry
     \/ NoSizeLeft(size, lower, upper) /\ found # <<>> /\ StartLink(found)
     \/ NoSizeLeft(size, lower, upper) /\ found = <<>> /\ Stop("failed")

(* A LinkerError ends the try; it ends the program unless a bisection      *)
(* catches it.                                                             *)
TryFails ==
  \/ /\ HasBloat
     /\ Bisect((bisect.size + bisect.lower) \div 2,
               bisect.lower, bisect.size, best)
  \/ ~HasBloat /\ Stop("failed") /\ UNCHANGED <<bisect, best>>

TrySucceeds ==
  \/ /\ HasBloat
     /\ Bisect((bisect.size + bisect.upper) \div 2,
               bisect.size, bisect.upper, segments)
  \/ ~HasBloat /\ StartLink(segments) /\ UNCHANGED <<bisect, best>>

(* Whether the segment at hand may begin at, and end after, ip.  Mutant:   *)
(* the end may be passed by one.                                           *)
MayBegin == layout[seg].begin # None => ip <= layout[seg].begin
MayEndLate == layout[seg].end \notin {None, Bloat} => ip <= layout[seg].end + 1
MayEnd == layout[seg].end \notin {None, Bloat} => ip <= layout[seg].end

(* "segment overflow" *)
SegmentOverflow ==
  /\ phase = "segment" /\ seg <= Len(layout)
  /\ ~MayBegin
  /\ TryFails
  /\ UNCHANGED <<input, offset, rom>>

BeginSegment ==
  /\ phase = "segment" /\ seg <= Len(layout)
  /\ MayBegin
  /\ LET begin == IF layout[seg].begin = None THEN ip ELSE layout[seg].begin
         start == IF layout[seg].minBegin = None THEN begin
                  ELSE MaxOf(begin, layout[seg].minBegin)
     IN  /\ ip' = start
         /\ segments' = Append(segments, [begin |-> start, end |-> start])
  /\ todo' = {s \in DOMAIN sections : sections[s].segment = seg}
  /\ holes' = <<>>
  /\ phase' = "fit"
  /\ UNCHANGED <<input, seg, offset, placed, bisect, best, rom>>

Place(s, x) ==
  /\ offset' = [offset EXCEPT ![s] = x]
  /\ todo' = todo \ {s}
  /\ placed' = placed \cup {s}
  /\ UNCHANGED <<input, seg, segments, bisect, best, rom>>

(* fitSectionsFill: the first hole that holds the section is split. *)
PlaceInHole ==
  /\ phase = "fit" /\ fit = "fill"
  /\ \E s \in todo, i \in DOMAIN holes :
       /\ IsNext(s)
       /\ IsFirstHole(i, s)
       /\ Place(s, AlignUp(holes[i].start, sections[s].align))
       /\ holes' = RemoveAt(holes, i) \o Leftover(holes[i], s)
  /\ UNCHANGED <<phase, ip>>

(* A section past the last address: the LinkerError meant for it is built  *)
(* from a name the function does not have, so the linker stops on a        *)
(* NameError that nothing catches.                                         *)
PlaceAtEnd ==
  /\ phase = "fit"
  /\ \E s \in todo :
       /\ IsNext(s)
       /\ fit = "fill" => \A i \in DOMAIN holes : ~Holds(holes[i], s)
       /\ Place(s, AlignUp(ip, sections[s].align))
       /\ holes' = IF fit = "fill" THEN holes \o NonEmpty(ip, Gap(ip, s)) ELSE holes
       /\ ip' = AlignUp(ip, sections[s].align) + sections[s].size
  /\ phase' = IF ip' > AddrSpace - 1 THEN "crashed" ELSE "fit"

(* "Segment overflow" *)
EndOverflow ==
  /\ phase = "fit" /\ todo = {}
  /\ ~MayEnd
  /\ TryFails
  /\ UNCHANGED <<input, offset, rom>>

EndSegment ==
  /\ phase = "fit" /\ todo = {}
  /\ MayEnd
  /\ ip' = IF layout[seg].end = None THEN ip
           ELSE IF layout[seg].end = Bloat THEN ip + bisect.size
           ELSE layout[seg].end
  /\ segments' = [segments EXCEPT ![seg] = [begin |-> @.begin, end |-> ip']]
  /\ seg' = seg + 1
  /\ phase' = "segment"
  /\ UNCHANGED <<input, todo, holes, offset, placed, bisect, best, rom>>

EndTry ==
  /\ phase = "segment" /\ seg = Len(layout) + 1
  /\ TrySucceeds
  /\ UNCHANGED <<input, offset, rom>>

---------------------------------------------------------------------------
(* link: an origin segment gets the size of its target; nothing may begin  *)
(* before the end of the segment in front of it.                           *)

IsOrigin(i) == layout[i].target # 0
SizeOf(i) == segments[i].end - segments[i].begin

MayLink == IF IsOrigin(seg) THEN SizeOf(seg) = 0 ELSE segments[seg].begin >= ip

LinkFails ==
  /\ phase = "origin" /\ seg <= Len(layout)
  /\ ~MayLink
  /\ Stop("failed")
  /\ UNCHANGED <<input, offset, bisect, best, rom>>

(* Mutant: an origin without room for its target. *)
LinkedBoundsNoRoom ==
  IF IsOrigin(seg) THEN [begin |-> ip, end |-> ip] ELSE segments[seg]
LinkedBounds ==
  IF IsOrigin(seg) THEN [begin |-> ip, end |-> ip + SizeOf(layout[seg].target)]
  ELSE segments[seg]

LinkSegment ==
  /\ phase = "origin" /\ seg <= Len(layout)
  /\ MayLink
  /\ segments' = [segments EXCEPT ![seg] = LinkedBounds]
  /\ ip' = LinkedBounds.end
  /\ seg' = seg + 1
  /\ UNCHANGED <<input, phase, todo, holes, offset, placed, bisect, best, rom>>

StartRom ==
  /\ phase = "origin" /\ seg = Len(layout) + 1
  /\ phase' = "rom"
  /\ todo' = DOMAIN sections
  /\ UNCHANGED <<input, seg, ip, holes, offset, placed, segments, bisect, best, rom>>

---------------------------------------------------------------------------
(* createRom: the sections in order; a later byte overwrites an earlier.   *)

Bytes(s) == 0 .. sections[s].size - 1
SegmentOf(s) == layout[sections[s].segment]
Begin(s) == segments[sections[s].segment].begin
ShadowOf(s) ==
  segments[SegmentOf(s).shadow].begin + offset[s] - Begin(s)

(* A negative index of a Python list counts from its end. *)
Index(x) == IF x < 0 THEN x + AddrSpace ELSE x

(* The addresses byte i of section s is written to. *)
Copies(s, i) ==
  (IF SegmentOf(s).init THEN {offset[s] + i} ELSE {})
    \cup (IF SegmentOf(s).shadow # 0 THEN {Index(ShadowOf(s) + i)} ELSE {})

CopySection ==
  /\ phase = "rom"
  /\ \E s \in todo :
       /\ \A t \in todo : s <= t
       /\ todo' = todo \ {s}
       /\ rom' = [x \in DOMAIN rom |->
                    IF \E i \in Bytes(s) : x \in Copies(s, i)
                      THEN <<s, CHOOSE i \in Bytes(s) : x \in Copies(s, i)>>
                      ELSE rom[x]]
       /\ phase' = IF \A i \in Bytes(s) : Copies(s, i) \subseteq DOMAIN rom
                     THEN "rom" ELSE "crashed"
  /\ UNCHANGED <<input, seg, ip, holes, offset, placed, segments, bisect, best>>

Finish ==
  /\ phase = "rom" /\ todo = {}
  /\ phase' = "done"
  /\ UNCHANGED <<input, seg, todo, ip, holes, offset, placed, segments, bisect,
                 best, rom>>

Init ==
  /\ layout \in Layouts /\ sections \in Programs /\ fit \in {"fill", "simple"}
  /\ phase = "segment"
  /\ seg = 1 /\ ip = 0
  /\ todo = {} /\ holes = <<>> /\ placed = {} /\ segments = <<>>
  /\ offset = [s \in DOMAIN sections |-> None]
  /\ bisect = [size |-> AddrSpace \div 2, lower |-> 0, upper |-> AddrSpace]
  /\ best = <<>>
  /\ rom = [x \in 0 .. AddrSpace - 1 |-> <<>>]

Next ==
  \/ SegmentOverflow \/ BeginSegment \/ PlaceInHole \/ PlaceAtEnd
  \/ EndOverflow \/ EndSegment \/ EndTry
  \/ LinkFails \/ LinkSegment \/ StartRom \/ CopySection \/ Finish

Spec == Init /\ [][Next]_vars
FairSpec == Spec /\ WF_vars(Next)

---------------------------------------------------------------------------
(* Properties. *)

Apart(x, n, y, m) == x + n <= y \/ y + m <= x

(* The sections placed so far are aligned, lie below the next free         *)
(* address, and share no byte, though the fill strategy goes back to the   *)
(* gaps it left (fitSectionsFill).                                         *)
PlacedApart ==
  \A s \in placed :
    /\ sections[s].align # 0 => offset[s] % sections[s].align = 0
    /\ \A t \in placed \ {s} :
         Apart(offset[s], sections[s].size, offset[t], sections[t].size)

(* The gaps are free: apart from each other and from every section.        *)
HolesFree ==
  \A i \in DOMAIN holes :
    /\ \A j \in DOMAIN holes \ {i} :
         Apart(holes[i].start, holes[i].size, holes[j].start, holes[j].size)
    /\ \A s \in placed :
         Apart(holes[i].start, holes[i].size, offset[s], sections[s].size)

(* The simple strategy keeps the sections of a segment in the order of the *)
(* command line, so that code runs on from one into the next               *)
(* (fitSectionsSimple).                                                    *)
SimpleKeepsOrder ==
  fit = "simple" => \A s, t \in placed :
    s < t /\ sections[s].segment = sections[t].segment =>
      offset[s] + sections[s].size <= offset[t]

Linked == phase \in {"origin", "rom", "done"}

(* When the sections have been placed into segments (link, "place sections *)
(* into segments"), every section that is not empty lies inside its        *)
(* segment, and its segment is not one that keeps room for another.        *)
SectionsPlaced ==
  Linked => \A s \in DOMAIN sections :
    LET b == segments[sections[s].segment]
    IN  sections[s].size > 0 =>
          /\ phase # "origin" => ~IsOrigin(sections[s].segment)
          /\ b.begin <= offset[s] /\ offset[s] + sections[s].size <= b.end

(* The same where no segment bloats. *)
SectionsInSegments == ~HasBloat => SectionsPlaced

(* The image of a program that links holds every byte of every section     *)
(* that is initialised, at its address or at its copy in the origin        *)
(* segment: no section or copy has overwritten another.                    *)
RomComplete ==
  phase = "done" /\ ~HasBloat =>
    \A s \in DOMAIN sections : \A i \in Bytes(s) :
      \A x \in Copies(s, i) : rom[x] = <<s, i>>

(* The linker ends: the bisection, too, runs out of sizes to try.          *)
LinkerEnds == <>(phase \in {"done", "failed", "crashed"})

=============================================================================
