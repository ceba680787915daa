------------------------------ MODULE MCIngest ------------------------------
(***************************************************************************)
(* A filing with a release to come, or two releases of one wire of which   *)
(* the second copies the first, to come or both listed.                    *)
(***************************************************************************)
EXTENDS Ingest

MCAtom == [f \in Filings |-> [term |-> "", title |-> "8-K"]]
MCWireOf == [r \in Releases |-> 1]
MCSameText == {<<11, 12>>, <<12, 11>>}

Start(f, r, s) == [e \in Entries |-> CASE e = 1 -> f [] e = 11 -> r [] e = 12 -> s]
MCStarts == {Start("listed", "ahead", "off"), Start("off", "listed", "ahead"),
             Start("off", "listed", "listed")}
=============================================================================
