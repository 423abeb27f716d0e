--------------------------- MODULE MCEventManager ---------------------------
(* EventManager with a listener that takes everything and one that takes    *)
(* high priorities only.                                                    *)
EXTENDS EventManager

CONSTANT key

MCFilters == {[handler |-> 1, types |-> {key}, minPriority |-> Low],
              [handler |-> 2, types |-> {key}, minPriority |-> High]}
MCPriorities == {Normal, Immediate}
=============================================================================
