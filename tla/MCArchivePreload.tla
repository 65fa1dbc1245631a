-------------------------- MODULE MCArchivePreload --------------------------
(***************************************************************************)
(* Two names, two members and two workers: both names in one member, each  *)
(* in its own, or one undefined; every member loadable or not; either name *)
(* a data symbol; an archive that can be read or only in part.             *)
(***************************************************************************)
EXTENDS ArchivePreload, TLC

CONSTANTS name1, name2, member1, member2

AllNames == {name1, name2}
AllMembers == {member1, member2}

\* The members are interchangeable, so one table of contents of each shape.
Tocs ==
  {(name1 :> member1) @@ (name2 :> x) : x \in {member1, member2, NoMember}}

AllContents ==
  [toc : Tocs, bad : SUBSET AllMembers, data : {{}, {name2}}, readable : BOOLEAN]
=============================================================================
