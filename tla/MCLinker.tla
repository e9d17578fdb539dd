------------------------------ MODULE MCLinker ------------------------------
(***************************************************************************)
(* Linker in an address space of 16 bytes, on layouts shaped like those of *)
(* the repository: layouts/default-stack.yaml (a ROM with the origins of   *)
(* what is copied to RAM), app.yaml (min-begin, a fixed end and a segment     *)
(* after it) and one with a segment that bloats.                           *)
(***************************************************************************)
EXTENDS Linker

Plain == [begin |-> None, minBegin |-> None, end |-> None,
          target |-> 0, shadow |-> 0, init |-> FALSE]

RomLayout ==
  << [Plain EXCEPT !.begin = 0, !.init = TRUE],     (* text           *)
     [Plain EXCEPT !.init = TRUE, !.target = 5],    (* ramtext_origin *)
     [Plain EXCEPT !.init = TRUE, !.target = 4],    (* data_origin    *)
     [Plain EXCEPT !.begin = 8, !.shadow = 3],      (* data           *)
     [Plain EXCEPT !.shadow = 2],                   (* ramtext        *)
     [Plain EXCEPT !.end = 14] >>                   (* _empty         *)

AppLayout ==
  << [Plain EXCEPT !.begin = 0, !.init = TRUE],     (* text           *)
     [Plain EXCEPT !.init = TRUE],                  (* data           *)
     [Plain EXCEPT !.minBegin = 4],                 (* sys_bss        *)
     [Plain EXCEPT !.end = 12],                     (* stack          *)
     [Plain EXCEPT !.begin = 12] >>                 (* syscall_args   *)

BloatLayout ==
  << [Plain EXCEPT !.begin = 0, !.init = TRUE],     (* text           *)
     [Plain EXCEPT !.end = Bloat],                  (* heap           *)
     [Plain EXCEPT !.init = TRUE],                  (* data           *)
     [Plain EXCEPT !.begin = 12, !.init = TRUE],    (* vectors        *)
     [Plain EXCEPT !.end = 14] >>                   (* _empty         *)

MCLayouts == {RomLayout, AppLayout, BloatLayout}
MCBloatLayouts == {BloatLayout}

Sections(segs, sizes, aligns) ==
  {[segment |-> g, size |-> n, align |-> a] : g \in segs, n \in sizes, a \in aligns}

Pool == Sections({1}, {1}, {0, 4}) \cup Sections({1}, {1, 3}, {2}) \cup Sections({2}, {1}, {1})
          \cup Sections({3}, {2}, {1, 3}) \cup Sections({4}, {2}, {1})
          \cup Sections({5}, {3}, {2})
MCPrograms == [1 .. 4 -> Pool]
MCBloatPrograms == [1 .. 2 -> Pool]

=============================================================================
