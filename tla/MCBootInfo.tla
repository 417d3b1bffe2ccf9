----------------------------- MODULE MCBootInfo -----------------------------
(***************************************************************************)
(* An instance of BootInfo and KernelLoader.  Boot loaders with up to two  *)
(* modules, whose names end before, at and after the end of a page; images *)
(* with two segments in every relative position, the pages they touch      *)
(* apart, adjacent, shared or the same, in either order, with a header     *)
(* that is not loaded between them.                                        *)
(***************************************************************************)
EXTENDS BootInfo

Table(p, r, f, m) == [protocol |-> p, rsdp |-> r, framebuffers |-> f, modules |-> m]
Module(name, size) == [name |-> name, size |-> size]

MCBootTables ==
    { Table("limine", FALSE, 0, <<>>),
      Table("limine", TRUE, 1, <<Module(1, 5)>>),
      Table("limine", FALSE, 0, <<Module(2, 0)>>),
      Table("tartarus", FALSE, 0, <<Module(3, 4), Module(2, 8)>>),
      Table("tartarus", TRUE, 2, <<>>) }

Good == [magic |-> "ELF", class |-> 64, data |-> "2LSB", machine |-> "expected", type |-> "EXEC"]

Load(v, memsz, filesz, offset, flags) ==
    [load |-> TRUE, vaddr |-> v, memsz |-> memsz, filesz |-> filesz,
     offset |-> offset, flags |-> flags]
Note == [load |-> FALSE, vaddr |-> 0, memsz |-> 0, filesz |-> 0, offset |-> 0, flags |-> {}]

SectionAt(a, named) == [addr |-> a, named |-> named]

Image(h, p, t, s) == [header |-> h, phdrs |-> p, sectionTable |-> t, sections |-> s]

Layouts ==
    { <<Load(v[1], m[1], m[1] \div z, 0, {"READ", "EXEC"}), Note,
        Load(v[2], m[2], m[2] \div z, 10, {"READ", "WRITE"})>> :
        v \in {<<0, 4>>, <<1, 6>>, <<5, 2>>, <<9, 1>>, <<6, 6>>},
        m \in {<<3, 4>>, <<0, 2>>, <<6, 1>>}, z \in {1, 2} }
OneLayout == <<Load(1, 3, 3, 0, {"READ", "EXEC"}), Note>>

MCImages ==
    { Image(Good, p, TRUE, <<SectionAt(0, FALSE), SectionAt(a, TRUE)>>) :
        p \in Layouts, a \in {2, 7} }
      \cup { Image(Good, OneLayout, TRUE, <<SectionAt(1, FALSE)>>),
             Image(Good, <<Note, Note>>, TRUE, <<SectionAt(1, TRUE)>>),
             Image(Good, OneLayout, FALSE, <<>>),
             Image([Good EXCEPT !.machine = "another"], OneLayout, FALSE, <<>>) }
=============================================================================
