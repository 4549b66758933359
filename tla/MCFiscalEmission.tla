-------------------------- MODULE MCFiscalEmission --------------------------
(***************************************************************************)
(* Small instances of FiscalEmission: the sources are those of the code    *)
(* for each kind of operation; shared where the code shares them.          *)
(***************************************************************************)
EXTENDS FiscalEmission

CONSTANTS s1, s2, s3,   \* senders
          e1, e2, e3,   \* enqueuers
          w1, w2,       \* queue workers
          r1,           \* reconcile cron
          h1, h2        \* webhook handlers

MCOps == Senders \cup Enqueuers \cup Workers \cup Reconcilers

MCSources == {"manual", "manual_resend", "auto_create", "retry", "queue", "fiscal_queue", "reconcile"}

\* Every manual send is "manual" and every worker "fiscal_queue"; the
\* enqueuers are an automatic one, a resend and a note.
CodeSource ==
  [o \in MCOps |-> CASE o \in Senders     -> "manual"
                     [] o \in Workers     -> "fiscal_queue"
                     [] o \in Reconcilers -> "reconcile"
                     [] o = e1            -> "auto_create"
                     [] o = e2            -> "manual_resend"
                     [] OTHER             -> "queue"]

\* One manual send and one manual resend.
TwoManuals == [o \in MCOps |-> IF o = s2 THEN "manual_resend" ELSE CodeSource[o]]

NoGroups == {}

\* Two instances: one with the requests and the webhooks, one with the rest.
TwoInstances == {Senders \cup Enqueuers \cup Hooks, Workers \cup Reconcilers}
=============================================================================
