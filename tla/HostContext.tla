---------------------------- MODULE HostContext ----------------------------
(***************************************************************************)
(* What a mapping module may do (crates/runtime): the checks a module must *)
(* pass to be loaded, and the context of one block, in which the handlers' *)
(* writes are buffered (host.rs).                                          *)
(***************************************************************************)
EXTENDS Integers, EntityTable

ABI_VERSION == 1

HostFunctions == {"sq_store_get", "sq_store_set", "sq_store_remove", "sq_log", "sq_chain_call"}
GuestExports  == {"sq_abi_version", "sq_alloc", "sq_dealloc"}

(* check_abi_version, check_required_exports and check_imports.            *)
ModuleAccepted(m) ==
    /\ m.abi_version = ABI_VERSION
    /\ GuestExports \subseteq m.exports
    /\ \A import \in m.imports : import.module = "superquery" /\ import.name \in HostFunctions

HasHandler(m, handler) == handler \in m.exports \ GuestExports

(* Status, by its codes.                                                   *)
Status == [Ok |-> 0, NotFound |-> 1, InvalidArgument |-> -1, UnknownEntity |-> -2,
           StoreError |-> -3, CapabilityDenied |-> -4, ResourceExhausted |-> -5]
IsError(status) == status < 0

(* HostContext::new.                                                       *)
NewContext(block, known_entities) ==
    [block |-> block, operations |-> <<>>, known_entities |-> known_entities]

KnowsEntity(context, entity) == entity \in context.known_entities

(* store_set's status.                                                     *)
SetStatus(context, entity, id, data) ==
    IF ~KnowsEntity(context, entity) THEN Status.UnknownEntity
    ELSE IF ~data.is_object THEN Status.InvalidArgument
    ELSE IF IdName \notin DOMAIN data.members \/ data.members[IdName] # {[json |-> "string", text |-> id]}
    THEN Status.InvalidArgument
    ELSE Status.Ok

RemoveStatus(context, entity) ==
    IF KnowsEntity(context, entity) THEN Status.Ok ELSE Status.UnknownEntity

Buffered(context, operation) ==
    [context EXCEPT !.operations = Append(@, operation)]

(* store_set and store_remove: a call that is refused leaves no trace.     *)
StoreSet(context, entity, id, data) ==
    IF IsError(SetStatus(context, entity, id, data)) THEN context
    ELSE Buffered(context, [operation |-> "Set", entity_type |-> entity, data |-> data.members])

StoreRemove(context, entity, id) ==
    IF IsError(RemoveStatus(context, entity)) THEN context
    ELSE Buffered(context, [operation |-> "Remove", entity_type |-> entity, data |-> id])

(* A call of the guest.  log changes nothing.                              *)
HostCall(context, call) ==
    CASE call.function = "sq_store_set"    -> StoreSet(context, call.entity, call.id, call.data)
      [] call.function = "sq_store_remove" -> StoreRemove(context, call.entity, call.id)
      [] call.function = "sq_log"          -> context

(* The calls of a handler, one after the other.                            *)
HostCalls(context, calls) ==
    LET after[n \in 0..Len(calls)] == IF n = 0 THEN context ELSE HostCall(after[n - 1], calls[n])
    IN  after[Len(calls)]

(* take_operations.                                                        *)
TakeOperations(context) == [taken |-> context.operations, context |-> [context EXCEPT !.operations = <<>>]]
=============================================================================
