------------------------------ MODULE Extraction ------------------------------
(* Both extraction stages of one invoice: the data stage starts from the    *)
(* text that the text stage has stored.                                     *)
EXTENDS TextExtraction, DataExtraction

allVars == <<jobVars, textVars, dataVars>>

(* The values of the variables of both stages and their job.               *)
ExtractionTypeOK == TextTypeOK /\ DataTypeOK

Init == TextInit /\ DataInit

Next == \/ TextNext /\ UNCHANGED dataVars
        \/ DataNext /\ UNCHANGED textVars

Spec == Init /\ [][Next]_allVars

(* BullMQ hands a waiting job to the worker, timers fire, a terminated      *)
(* thread ends, and a request ends with its timeout.                        *)
FairSpec == /\ Spec
            /\ WF_allVars(TextTimely /\ UNCHANGED dataVars)
            /\ WF_allVars(DataSteps /\ UNCHANGED textVars)

(* An invoice does not stay in extraction: it gets its data, fails, or its  *)
(* row is gone, whatever hangs, throws or dies on the way.                  *)
EventuallyDecides == <>(status \in {"DATA_READY", "FAILED"} \/ ~live)
===============================================================================
