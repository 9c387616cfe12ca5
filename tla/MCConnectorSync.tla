-------------------------- MODULE MCConnectorSync --------------------------
(* Small instances of ConnectorSync for TLC. *)
EXTENDS ConnectorSync, TLC

CONSTANTS c1, c2, s1, s2, f1, o1

TwoConnectors == {c1, c2}
OneConnector  == {c1}
TwoSyncs      == {s1, s2}
OneFile       == {f1}
OneOrder      == {o1}

\* c1 pulls a sheet, c2 takes uploads.
MixedKinds == [c \in {c1, c2} |-> IF c = c1 THEN "sheets_csv" ELSE "csv_upload"]
SheetOnly  == [c \in {c1} |-> "sheets_csv"]
UploadOnly == [c \in {c1} |-> "csv_upload"]
Single     == [f \in {f1} |-> {o1}]

\* Bound: no upload is read once a process has crashed.
UploadsBeforeCrash == crashes > 0 => \A c \in Connectors : upload[c] = NoConfig

\* Bound: where no user acts, a connector that is absent stays so and the names of
\* idle syncs are as good as new.
QuietInit == /\ Init
             /\ \A c \in Connectors : status[c] = "active"
             /\ \A t \in Syncs : of[t] = c1
QuietFromStart == QuietInit /\ [][SystemStep]_vars /\ Fairness

SyncSymmetry == Permutations(Syncs)
=============================================================================
