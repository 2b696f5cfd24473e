------------------------------ MODULE MsgProps ------------------------------
(***************************************************************************)
(* The typed property map of a message (spec 4.3 and 6). The native core  *)
(* stores each property under its name with a type tag; a getter for a    *)
(* missing name or of the wrong kind fails with a typed error and never   *)
(* yields a default value. Used by the command relay modules.             *)
(***************************************************************************)
EXTENDS TLC

\* The kinds a Go setter can store (spec 2: string, integer, buffer, pointer).
Kinds == {"string", "int", "buf", "ptr"}

\* The error a getter reports; "ok" when the value is returned.
PropErrs == {"ok", "PropertyNotFound", "TypePropertyMismatch"}

\* A message created by NewCmd or NewCmdResult has no properties.
NoProps == [key \in {} |-> "none"]

\* GetPropertyString, GetPropertyInt64, GetPropertyPtr, ... with kind t.
GetProperty(props, key, t) ==
    IF key \notin DOMAIN props
      THEN [err |-> "PropertyNotFound", val |-> "none"]
    ELSE IF props[key].kind # t
      THEN [err |-> "TypePropertyMismatch", val |-> "none"]
    ELSE [err |-> "ok", val |-> props[key].val]

\* SetProperty / SetPropertyString: (re)binds key to a value of kind t.
SetProperty(props, key, t, v) == (key :> [kind |-> t, val |-> v]) @@ props

=============================================================================
