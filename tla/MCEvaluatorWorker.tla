------------------------ MODULE MCEvaluatorWorker --------------------------
(* Instances of the command backend with a persistent worker.              *)
EXTENDS EvaluatorWorker
=============================================================================
