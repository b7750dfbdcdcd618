-------------------------- MODULE MCRetrainingLoop --------------------------
(***************************************************************************)
(* Instances of RetrainingLoop for TLC: a scheduled run, which is retried  *)
(* once, beside an API request of any kind.  The Kubernetes branch without *)
(* an image and the Databricks branch without credentials are special      *)
(* cases of the branches taken here.                                       *)
(***************************************************************************)
EXTENDS RetrainingLoop, TLC

CONSTANTS k1, q1, q2

Deployment(where, ready, data) == [runs_in |-> where, ready |-> ready, data |-> data]

Deployments == {Deployment("k8s_job", TRUE, TRUE), Deployment("k8s_job", TRUE, FALSE),
                Deployment("databricks", TRUE, TRUE), Deployment("local", FALSE, TRUE)}
=============================================================================
