------------------------------- MODULE Errors -------------------------------
(***************************************************************************)
(* How an error is routed: what went wrong becomes a DatatypeError, that a *)
(* RecoveryAction, and that the mode of the event loop; what it does to the *)
(* datatype is MutableOps!ApplyAction.  Messages and codes are left out.    *)
(***************************************************************************)

(* PushPullError, what a server puts into a response. *)
PushPullErrors ==
    {"ProtocolViolation", "ReadonlyViolation", "CreateFailed", "ResourceNotFound",
     "MissingSubscription", "ServerInternalError"}

(* DatatypeError; those the caller of the API gets are never routed.        *)
DatatypeErrors ==
    {"TransactionFailed", "Internal", "Disallowed", "NotWritable", "ReadonlyViolation",
     "SyncFailed", "PushBufferExceededMaxMemSize", "ServerRejected"}

ApiErrors == {"TransactionFailed", "Disallowed", "NotWritable"}

(* InternalReason, erased into Internal unless it is routed before. *)
InternalReasons ==
    {"Deserialize", "ExecuteOperation", "EventLoop", "NonSequentialCseq",
     "GetPushingTransactions"}

RecoveryActions ==
    {"NotifyOnly", "RetryWithBackOff", "RollbackTransaction", "Resubscribe",
     "ResubscribeWithBackOff", "Disable"}

LoopModes == {"Normal", "BackOff", "Stopped"}

(* PushPullError::to_datatype_error; the reasons of ServerRejected are not  *)
(* told apart by anybody.                                                   *)
ToDatatypeError(e) ==
    CASE e = "ServerInternalError" -> "SyncFailed"
      [] e = "ReadonlyViolation"   -> "ReadonlyViolation"
      [] OTHER                     -> "ServerRejected"

(* ConnectivityError::to_datatype_error, which knows TimedOut only. *)
TimedOut == "SyncFailed"

(* DatatypeError::mapping.  For ApiErrors the code panics, and the CASE has *)
(* no value.                                                                *)
Mapping(e) ==
    CASE e = "SyncFailed"                   -> "RetryWithBackOff"
      [] e = "PushBufferExceededMaxMemSize" -> "RollbackTransaction"
      [] e \in {"Internal", "ServerRejected", "ReadonlyViolation"} -> "Disable"

(* InternalReason::mapping: routed before the reason is erased. *)
ReasonMapping(reason) ==
    IF reason = "NonSequentialCseq" THEN "RollbackTransaction" ELSE Mapping("Internal")

(* LoopMode::from(RecoveryAction) *)
LoopModeFrom(recovery) ==
    CASE recovery \in {"NotifyOnly", "Resubscribe", "RollbackTransaction"} -> "Normal"
      [] recovery \in {"RetryWithBackOff", "ResubscribeWithBackOff"}       -> "BackOff"
      [] recovery = "Disable"                                              -> "Stopped"

(* Whatever a server or a connectivity reports is routed to a recovery and  *)
(* never to the unreachable!() of mapping, and every recovery has a mode.   *)
ASSUME EverythingIsRouted ==
    /\ \A e \in PushPullErrors : ToDatatypeError(e) \in DatatypeErrors \ ApiErrors
    /\ TimedOut \in DatatypeErrors \ ApiErrors
    /\ \A e \in DatatypeErrors \ ApiErrors : Mapping(e) \in RecoveryActions
    /\ \A r \in InternalReasons : ReasonMapping(r) \in RecoveryActions
    /\ \A a \in RecoveryActions : LoopModeFrom(a) \in LoopModes
=============================================================================
