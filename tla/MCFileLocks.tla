---------------------------- MODULE MCFileLocks -----------------------------
(***************************************************************************)
(* Instances of FileLocks.                                                 *)
(***************************************************************************)
EXTENDS FileLocks, TLC

CONSTANTS t1, t2, t3, t4, registry, tensions, history, dreams

Other == <<"other", registry>>
Register == <<"resource_first", registry>>     \* register_ui_element
Mutate == <<"publication_first", tensions>>    \* mutateTensions
Nightmare == <<"publication_only", tensions>>  \* nightmare, under another lock
Dream == <<"load_first", dreams>>             \* appendDreamEdges

At(a, b, c, d) == (t1 :> a) @@ (t2 :> b) @@ (t3 :> c) @@ (t4 :> d)

\* Four tasks on the barrier alone; a chain of three calls on one file beside one
\* of them; and calls of the other kinds.
UniformSites ==
  {At(Other, Other, Other, Other),
   At(Register, Register, Register, Other),
   At(Mutate, Nightmare, Dream, Dream)}

\* appendHistoryEntry and clearHistory.
HistorySites ==
  {(t1 :> <<"publication_first", history>>) @@ (t2 :> <<"clearing", history>>)}
=============================================================================
