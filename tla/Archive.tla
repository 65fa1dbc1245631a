------------------------------ MODULE Archive ------------------------------
(***************************************************************************)
(* What an ArchiveLibraryFile promises the resolver                        *)
(* (include/lld/Core/ArchiveLibraryFile.h): find() gives the member that   *)
(* defines a name, each member at most once, and null otherwise. Nothing   *)
(* is said here of threads or of loading a member ahead of time.           *)
(***************************************************************************)
CONSTANTS
  Names,
  Members,
  NoMember,  \* nullptr
  Contents   \* what an archive can hold

VARIABLES
  archive,  \* the table of contents, the members that cannot be loaded, and the
            \* names of data symbols
  tried,    \* the members that were asked for
  asked,    \* the member that a find() is about to return
  answer    \* what the last find() returned

vars == <<archive, tried, asked, answer>>

Init ==
  /\ archive \in Contents
  /\ tried = {}
  /\ asked = NoMember
  /\ answer = NoMember

\* The member that find(name, dataSymbolOnly) goes for, if any.
Sought(toc, data, had, name, dataSymbolOnly) ==
  IF /\ toc[name] \notin had
     /\ ~dataSymbolOnly \/ name \in data
    THEN toc[name]
    ELSE NoMember

FindNothing(name, dataSymbolOnly) ==
  /\ asked = NoMember
  /\ Sought(archive.toc, archive.data, tried, name, dataSymbolOnly) = NoMember
  /\ answer' = NoMember
  /\ UNCHANGED <<archive, tried, asked>>

FindMember(name, dataSymbolOnly) ==
  /\ asked = NoMember
  /\ asked' = Sought(archive.toc, archive.data, tried, name, dataSymbolOnly)
  /\ asked' # NoMember
  /\ tried' = tried \cup {asked'}
  /\ answer' = NoMember
  /\ UNCHANGED archive

Answer ==
  /\ asked # NoMember
  /\ answer' = IF asked \in archive.bad THEN NoMember ELSE asked
  /\ asked' = NoMember
  /\ UNCHANGED <<archive, tried>>

Next ==
  \/ \E name \in Names, dataSymbolOnly \in BOOLEAN :
       FindNothing(name, dataSymbolOnly) \/ FindMember(name, dataSymbolOnly)
  \/ Answer

\* A find() comes back.
Spec == Init /\ [][Next]_vars /\ WF_vars(Answer)
=============================================================================
