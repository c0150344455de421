------------------------------ MODULE AuditShip ------------------------------
(***************************************************************************)
(* Shipping the audit log: the API's worker lists the rows, verifies the   *)
(* chain, seals the rows into a bundle and ships the bundle to a target;   *)
(* an operator can seal and ship bundles with mcxctl at the same time.     *)
(*                                                                         *)
(* A shipper performs one system call, request or statement per step and   *)
(* may fail or die at each.  The target is a directory, an S3 bucket or an *)
(* HTTP collector; it is external.  The answer of a request may be lost    *)
(* after the request has taken effect.                                     *)
(***************************************************************************)
EXTENDS AuditChain

CONSTANTS
  DefaultOrg,   \* the organisation of the worker's own audit rows
  Bundle,       \* bundle directories: each shipment of the worker names its own
  ListMayFail   \* the worker's listing may fail: it takes what it has got for the table

ASSUME AuditShipAssumption == DefaultOrg \in Org /\ ListMayFail \in BOOLEAN

VARIABLES
  scheme,   \* what the target's URL starts with
  shipper,  \* what each shipper is doing, with which bundle and which rows
  seal,     \* the bundles on the local disk
  target    \* the bundles at the target

shipVars == <<scheme, shipper, seal, target>>

Shipper == {"worker", "operator"}
Files   == <<"audit.jsonl", "manifest.json", "manifest.sha256">>
NoSeal  == [files |-> 0, rows |-> <<>>]
AtRest == [step |-> "rest"]
NoBundle == [dir |-> FALSE, files |-> [f \in DOMAIN Files |-> "none"], receipt |-> FALSE]

Set(p, work) == shipper' = [shipper EXCEPT ![p] = work]

\* The worker records how its run went; the row's payload holds the
\* verification, which is a struct.
Over(p) == IF p = "worker" THEN [step |-> "audit"] ELSE AtRest

-----------------------------------------------------------------------------
ShipInit ==
  /\ scheme \in {"file", "s3", "http"}
  /\ shipper = [p \in Shipper |-> AtRest]
  /\ seal = [b \in Bundle |-> NoSeal]
  /\ target = [b \in Bundle |-> NoBundle]

AuditInit == ChainInit /\ ShipInit

\* ListAuditLogsForSeal: the committed rows in the order of their stamps; the
\* first of them, or none, when the query or its rows fail.
ListAuditLogsForSeal ==
  LET rows == InOrder(table)
  IN  {rows} \cup (IF ListMayFail THEN {SubSeq(rows, 1, k) : k \in 0 .. Len(table)} ELSE {})

\* loadAuditLogs: the same rows; when it fails, so does the command.
LoadAuditLogs == {InOrder(table)}

\* A directory nobody has begun to write to.
Empty(b) ==
  /\ seal[b] = NoSeal
  /\ \A q \in Shipper : shipper[q].step = "seal" => shipper[q].bundle # b

\* Rows that verify are sealed.
Seal(p, b, listed) ==
  /\ shipper[p] = AtRest
  /\ Empty(b)
  /\ \E rows \in listed :
       Set(p, IF VerifyAuditHashChain(rows, allow)
              THEN [step |-> "seal", bundle |-> b, rows |-> rows]
              ELSE Over(p))
  /\ UNCHANGED <<chainVars, scheme, seal, target>>

\* The worker's ticker, and mcxctl audit-seal.
RunAuditShip(b) == Seal("worker", b, ListAuditLogsForSeal)
OperatorSeal(b) == Seal("operator", b, LoadAuditLogs)

\* auditseal.Write: the three files, one after the other; then the worker
\* ships what it has sealed.
WriteBundle(p) ==
  /\ shipper[p].step = "seal"
  /\ LET b == shipper[p].bundle
     IN  /\ seal' = [seal EXCEPT ![b] = [files |-> @.files + 1, rows |-> shipper[p].rows]]
         /\ Set(p, IF seal'[b].files < Len(Files) THEN shipper[p]
                   ELSE IF p = "worker" THEN [step |-> "ship", bundle |-> b]
                   ELSE AtRest)
  /\ UNCHANGED <<chainVars, scheme, target>>

\* mcxctl audit-ship, of any bundle there is: the first time or once more.
OperatorShip(b) ==
  /\ shipper["operator"] = AtRest
  /\ seal[b] # NoSeal
  /\ Set("operator", [step |-> "ship", bundle |-> b])
  /\ UNCHANGED <<chainVars, scheme, seal, target>>

\* Ship verifies the bundle - all three files, hashes that match - and makes
\* the destination, which must not be there yet.
BundleVerifiesHalf(b) == seal[b].files > 0                           \* a file not looked for
BundleVerifies(b) == seal[b].files = Len(Files)

\* Mkdir.
DestinationFree(b) == scheme = "file" => ~target[b].dir

Ship(p) ==
  /\ shipper[p].step = "ship"
  /\ LET b == shipper[p].bundle
     IN  IF BundleVerifies(b) /\ DestinationFree(b)
         THEN /\ Set(p, [step |-> "send", bundle |-> b, file |-> 1])
              /\ target' = [target EXCEPT ![b].dir = (scheme = "file")]
         ELSE Set(p, Over(p)) /\ UNCHANGED target
  /\ UNCHANGED <<chainVars, scheme, seal>>

\* What a file or an object may be created over: O_EXCL, If-None-Match.
CreatableAgain(b, f) == TRUE                                         \* O_TRUNC for O_EXCL
Creatable(b, f) == target[b].files[f] = "none"

\* A shipment sends its files; then comes the receipt.
Sending(p, s) == scheme = s /\ shipper[p].step = "send"
AfterFile(p) ==
  IF shipper[p].file = Len(Files) THEN [step |-> "receipt", bundle |-> shipper[p].bundle]
  ELSE [shipper[p] EXCEPT !.file = @ + 1]

\* The shipment ends without a receipt; or the process has died.
Ends(p) == \E over \in {Over(p), AtRest} : Set(p, over)

\* A copy that fails half way leaves a torn file.
CopyFile(p) ==
  /\ Sending(p, "file")
  /\ LET b == shipper[p].bundle
         f == shipper[p].file
     IN  /\ Creatable(b, f)
         /\ \/ target' = [target EXCEPT ![b].files[f] = "whole"] /\ Set(p, AfterFile(p))
            \/ target' = [target EXCEPT ![b].files[f] = "torn"] /\ Ends(p)
  /\ UNCHANGED <<chainVars, scheme, seal>>

\* A PUT whose answer is lost has stored its object.
PutObject(p) ==
  /\ Sending(p, "s3")
  /\ Creatable(shipper[p].bundle, shipper[p].file)
  /\ target' = [target EXCEPT ![shipper[p].bundle].files[shipper[p].file] = "whole"]
  /\ Set(p, AfterFile(p)) \/ Ends(p)
  /\ UNCHANGED <<chainVars, scheme, seal>>

\* The collector gets the three files in one request, as often as it is sent.
PostBundle(p) ==
  /\ Sending(p, "http")
  /\ LET b == shipper[p].bundle
     IN  /\ target' = [target EXCEPT ![b].files = [f \in DOMAIN Files |-> "whole"]]
         /\ Set(p, [step |-> "receipt", bundle |-> b]) \/ Ends(p)
  /\ UNCHANGED <<chainVars, scheme, seal>>

\* The receipt is written last, once; the collector's is what it answered.  The
\* answer may be lost, and the process may die.
WriteReceipt(p) ==
  /\ shipper[p].step = "receipt"
  /\ scheme # "http" => ~target[shipper[p].bundle].receipt
  /\ target' = [target EXCEPT ![shipper[p].bundle].receipt = TRUE]
  /\ Ends(p)
  /\ UNCHANGED <<chainVars, scheme, seal>>

\* A step fails, before it has had an effect, or the process dies: a worker
\* that lives records its failure.
ShipFails(p) ==
  /\ shipper[p].step \notin {"rest", "audit"}
  /\ Ends(p)
  /\ UNCHANGED <<chainVars, scheme, seal, target>>

\* The worker's own audit row.
AuditShip ==
  /\ shipper["worker"].step = "audit"
  /\ \/ "worker" \in Writer /\ BeginRecord("worker", DefaultOrg, "struct")
     \/ Len(log) = MaxRows /\ UNCHANGED chainVars
  /\ Set("worker", AtRest)
  /\ UNCHANGED <<scheme, seal, target>>

ChainNext ==
  \/ \E w \in Writer \ {"worker"}, org \in Org : BeginRecord(w, org, "flat")
  \/ \E w \in Writer : CommitRecord(w)
  \/ \E w \in Writer : FailRecord(w)
  \/ ChangeTable

AuditNext ==
  \/ ChainNext /\ UNCHANGED shipVars
  \/ \E b \in Bundle : RunAuditShip(b) \/ OperatorSeal(b)
  \/ \E p \in Shipper : WriteBundle(p)
  \/ \E b \in Bundle : OperatorShip(b)
  \/ \E p \in Shipper : Ship(p)
  \/ \E p \in Shipper : CopyFile(p) \/ PutObject(p) \/ PostBundle(p)
  \/ \E p \in Shipper : WriteReceipt(p)
  \/ \E p \in Shipper : ShipFails(p)
  \/ AuditShip

auditVars == <<chainVars, shipVars>>

-----------------------------------------------------------------------------
(* The chain's types, and the shippers between two of their calls.          *)
AuditTypeOK ==
  /\ ChainTypeOK
  /\ scheme \in {"file", "s3", "http"}
  /\ \A p \in Shipper :
       shipper[p].step \in {"rest", "seal", "ship", "send", "receipt", "audit"}
  /\ \A b \in Bundle :
       /\ seal[b].files \in 0 .. Len(Files)
       /\ target[b].files \in [DOMAIN Files -> {"none", "torn", "whole"}]
       /\ target[b].dir \in BOOLEAN /\ target[b].receipt \in BOOLEAN

(* A receipt vouches for a delivery: the three files are whole at the       *)
(* target, and the bundle on the disk is complete and holds rows that       *)
(* verified, however shipments failed, were repeated or met on the same     *)
(* bundle before; and, while rows are stamped in the order they are         *)
(* recorded in, its rows vouch for what was there when they were recorded   *)
(* (auditseal.Write, Ship, shipS3, shipHTTP, runAuditShip).                 *)
ReceiptVouches ==
  \A b \in Bundle : target[b].receipt =>
    /\ \A f \in DOMAIN Files : target[b].files[f] = "whole"
    /\ seal[b].files = Len(Files)
    /\ VerifyAuditHashChain(seal[b].rows, allow)
    /\ Vouched(seal[b].rows, allow)

(* Of the shipments of a bundle to a directory or a bucket, one at most     *)
(* gets past its first file: the files and the receipt at the target are    *)
(* all of the same shipment, whether another one meets it there or follows  *)
(* one that was cut short (os.Mkdir, O_EXCL, If-None-Match).                *)
OneShipment ==
  scheme # "http" => \A b \in Bundle :
    LET past == {p \in Shipper :
          /\ \/ shipper[p].step = "receipt"
             \/ shipper[p].step = "send" /\ shipper[p].file > 1
          /\ shipper[p].bundle = b}
    IN  /\ Cardinality(past) <= 1
        /\ target[b].receipt => past = {}
=============================================================================
