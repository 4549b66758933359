---------------------------- MODULE BillingState ----------------------------
(***************************************************************************)
(* The pure part of the fiscal state machine: pkg/billingstate (stages,    *)
(* legal transitions, derived statuses, acceptance evidence), the mapping  *)
(* of facturador statuses to stages, and the row ApplyStatus computes.     *)
(*                                                                         *)
(* Stages, statuses and codes are the source's own strings in their        *)
(* canonical spelling.  A SUNAT code is one of "" (none), "0" (accepted),  *)
(* "2000" (any rejection, 1..3999) and "4000" (any observation, >= 4000).  *)
(***************************************************************************)
EXTENDS Naturals

Terminal == {"SUNAT_ACCEPTED", "SUNAT_REJECTED", "OBSERVED", "FAILED", "DEAD_LETTER"}

InFlight == {"PENDING_FISCAL", "PENDING_QUEUE", "PROCESSING", "RETRYING",
             "SENDING_TO_FACTURADOR", "FACTURADOR_RECEIVED", "SENDING_TO_SUNAT"}

Pipelines == Terminal \cup InFlight \cup {"DRAFT", "UNKNOWN"}

JobStatuses     == {"pending", "processing", "sent", "failed", "retrying", "dead_letter"}
SunatStatuses   == {"accepted", "observed", "rejected", "error", "pending"}
BillingStatuses == {"pending", "sent", "accepted", "rejected", "error"}
SunatCodes      == {"", "0", "2000", "4000"}

\* Statuses of a document in the facturador ("none": it never got it).
FiscalStatuses == {"none", "queued", "sending", "retrying",
                   "accepted", "observed", "rejected", "error"}

StageRank(p) ==
  CASE p = "DRAFT"                         -> 0
    [] p \in {"PENDING_FISCAL", "UNKNOWN"} -> 5
    [] p = "PENDING_QUEUE"                 -> 10
    [] p = "PROCESSING"                    -> 20
    [] p = "RETRYING"                      -> 25
    [] p = "SENDING_TO_FACTURADOR"         -> 30
    [] p = "FACTURADOR_RECEIVED"           -> 40
    [] p = "SENDING_TO_SUNAT"              -> 50
    [] p = "OBSERVED"                      -> 60
    [] p \in {"SUNAT_ACCEPTED", "SUNAT_REJECTED"} -> 70
    [] p = "FAILED"                        -> 80
    [] p = "DEAD_LETTER"                   -> 90

CanTransition(from, to) ==
  \/ from = to
  \/ to \in Terminal
  \/ from \in Terminal /\ to \in {"PENDING_QUEUE", "PROCESSING", "RETRYING"}
  \/ from \notin Terminal /\ StageRank(to) >= StageRank(from)

LegacyBillingStatus(p) ==
  CASE p \in {"SUNAT_ACCEPTED", "OBSERVED"} -> "accepted"
    [] p = "SUNAT_REJECTED"                 -> "rejected"
    [] p \in {"FAILED", "DEAD_LETTER"}      -> "error"
    [] p \in InFlight                       -> "sent"
    [] OTHER                                -> "pending"

LegacySunatStatus(p) ==
  CASE p = "SUNAT_ACCEPTED"            -> "accepted"
    [] p = "OBSERVED"                  -> "observed"
    [] p = "SUNAT_REJECTED"            -> "rejected"
    [] p \in {"FAILED", "DEAD_LETTER"} -> "error"
    [] OTHER                           -> "pending"

JobStatusFromPipeline(p) ==
  CASE p \in {"SUNAT_ACCEPTED", "OBSERVED"}   -> "sent"
    [] p \in {"SUNAT_REJECTED", "FAILED"}     -> "failed"
    [] p = "DEAD_LETTER"                      -> "dead_letter"
    [] p = "RETRYING"                         -> "retrying"
    [] p \in {"PROCESSING", "SENDING_TO_FACTURADOR",
              "FACTURADOR_RECEIVED", "SENDING_TO_SUNAT"} -> "processing"
    [] OTHER                                  -> "pending"

\* Phase shown for a stage; the job_status branch of the source only serves
\* stages outside Pipelines.
DisplayPhaseFromPipeline(p) ==
  CASE p = "DRAFT"                                    -> "draft"
    [] p \in {"PENDING_QUEUE", "PENDING_FISCAL"}      -> "queued"
    [] p = "RETRYING"                                 -> "retrying"
    [] p \in {"PROCESSING", "SENDING_TO_FACTURADOR",
              "FACTURADOR_RECEIVED", "SENDING_TO_SUNAT"} -> "sending"
    [] p = "SUNAT_ACCEPTED"                           -> "accepted"
    [] p = "OBSERVED"                                 -> "observed"
    [] p = "SUNAT_REJECTED"                           -> "rejected"
    [] OTHER                                          -> "error"

-----------------------------------------------------------------------------
\* tenant_invoices: the columns the pipeline decides on.  `files` stands for
\* the signed XML (or hash) plus the stored CDR, `ext` for external_id,
\* `sent` for sent_at.

InvoiceRows ==
  [exists : BOOLEAN, pipeline : Pipelines, job : JobStatuses,
   sunat : SunatStatuses, code : SunatCodes, files : BOOLEAN,
   ext : BOOLEAN, sent : BOOLEAN]

\* A row just created at stage p.
NewInvoice(p, ext) ==
  [exists |-> TRUE, pipeline |-> p, job |-> JobStatusFromPipeline(p),
   sunat |-> LegacySunatStatus(p), code |-> "", files |-> FALSE,
   ext |-> ext, sent |-> FALSE]

NoInvoice == [NewInvoice("DRAFT", FALSE) EXCEPT !.exists = FALSE]

\* The golden rule: CDR code 0, signed XML and stored CDR.
HasAcceptanceEvidence(row) == row.exists /\ row.code = "0" /\ row.files

HasFinalSunatOutcome(row) ==
  /\ row.exists
  /\ \/ row.pipeline \in {"SUNAT_ACCEPTED", "SUNAT_REJECTED", "OBSERVED"}
     \/ HasAcceptanceEvidence(row)
     \/ row.sunat = "rejected" /\ row.sent

\* inferPipelineFromLegacy: the stage of a stored row that says DRAFT.
InferPipeline(row) ==
  CASE HasAcceptanceEvidence(row) ->
         (IF row.sunat = "observed" THEN "OBSERVED" ELSE "SUNAT_ACCEPTED")
    [] ~HasAcceptanceEvidence(row) /\ row.sunat = "accepted" -> "UNKNOWN"
    [] ~HasAcceptanceEvidence(row) /\ row.sunat = "rejected" -> "SUNAT_REJECTED"
    [] ~HasAcceptanceEvidence(row) /\ row.sunat = "error"    -> "FAILED"
    [] ~HasAcceptanceEvidence(row) /\ row.sunat = "pending"  ->
         (CASE row.job \in {"processing", "retrying"} -> "PROCESSING"
            [] row.job = "sent"                       -> "UNKNOWN"
            [] OTHER                                  -> "PENDING_QUEUE")
    [] OTHER -> "DRAFT"

\* BuildStatusView: the stage readers and PrepareFiscalOperation see.
ViewPipeline(row) ==
  IF row.exists /\ row.pipeline = "DRAFT" THEN InferPipeline(row) ELSE row.pipeline

BillingRank(b) ==
  CASE b = "pending"  -> 0
    [] b = "sent"     -> 1
    [] b = "error"    -> 2
    [] b = "rejected" -> 3
    [] b = "accepted" -> 4

EffectiveBillingStatus(sale, row) ==
  LET fromInv == IF row.exists THEN LegacyBillingStatus(ViewPipeline(row)) ELSE "pending"
  IN IF BillingRank(fromInv) >= BillingRank(sale) THEN fromInv ELSE sale

-----------------------------------------------------------------------------
\* Mutant of MapFiscalStatusToPipeline: a document the facturador is sending
\* counts as accepted.
MapSendingAsAccepted(status, code) ==
  CASE status \in {"accepted", "sending"} -> "SUNAT_ACCEPTED"
    [] code = "4000"                      -> "OBSERVED"
    [] code = "2000"                      -> "SUNAT_REJECTED"
    [] status = "queued"                  -> "PENDING_FISCAL"
    [] status = "retrying"                -> "RETRYING"
    [] OTHER                              -> "FAILED"

\* mapFiscalStatusToPipeline; pipelineFromFiscalStatus, which announces the
\* change to the tenant's browsers, is a second copy of it.
MapFiscalStatusToPipeline(status, code) ==
  CASE code = "4000" -> "OBSERVED"
    [] code = "2000" /\ status \notin {"accepted", "observed"} -> "SUNAT_REJECTED"
    [] OTHER ->
       CASE status = "accepted" -> "SUNAT_ACCEPTED"
         [] status = "observed" -> "OBSERVED"
         [] status = "rejected" -> "SUNAT_REJECTED"
         [] status = "queued"   -> "PENDING_FISCAL"
         [] status = "sending"  -> "SENDING_TO_SUNAT"
         [] status = "retrying" -> "RETRYING"
         [] status = "error"    -> "FAILED"
         [] OTHER -> IF code = "0" THEN "SUNAT_ACCEPTED" ELSE "UNKNOWN"

IsFiscalTerminalStatus(status) == status \in {"accepted", "rejected", "observed", "error"}

\* What the facturador sends with each status.
CodeOf(status) ==
  CASE status = "accepted" -> "0"
    [] status = "observed" -> "4000"
    [] status = "rejected" -> "2000"
    [] OTHER               -> ""

\* ApplyStatus: the whole row saved for a payload, from the row it has read.
AppliedRow(row, status) ==
  LET mapped == MapFiscalStatusToPipeline(status, CodeOf(status))
      p      == IF CanTransition(row.pipeline, mapped) THEN mapped ELSE row.pipeline
  IN [row EXCEPT !.ext      = TRUE,
                 !.pipeline = p,
                 !.job      = JobStatusFromPipeline(p),
                 !.sunat    = LegacySunatStatus(p),
                 !.code     = IF CodeOf(status) # "" THEN CodeOf(status) ELSE @,
                 !.files    = @ \/ status \in {"accepted", "observed"},
                 !.sent     = @ \/ p \notin {"DRAFT", "PENDING_QUEUE"}]
=============================================================================
