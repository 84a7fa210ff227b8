---------------------------- MODULE MCPublication ----------------------------
(* ExportPublication on a directory that keeps one snapshot, and the       *)
(* anchors of the publications, which have a log and a witness of their    *)
(* own.  A behaviour is about one of them.                                 *)
EXTENDS ExportPublication, ChainAnchor
CONSTANT t1

VARIABLE about

MCVars == <<about, vars, cvars>>
Export(A) == about = "export" /\ A /\ UNCHANGED <<about, cvars>>
Anchors(A) == about = "anchors" /\ A /\ UNCHANGED <<about, vars>>

MCInit == about \in {"export", "anchors"} /\ Init /\ CInit

MCNext == Export(Next) \/ Anchors(CNext)

\* The fairness of ExportPublication.
MCSpec == /\ MCInit
          /\ [][MCNext]_MCVars
          /\ WF_MCVars(Export(TickStep))
          /\ WF_MCVars(Export(OtherStep))
          /\ WF_MCVars(Export(SelfCompaction))
=============================================================================
