------------------------------ MODULE Permissions ------------------------------
(* The policy by which an agent's call is made, asked about or refused          *)
(* (Permissions::risk and check in runtime/src/permissions.rs); the allow and   *)
(* the deny lists are empty wherever the program builds a policy.               *)

Modes == {"Default", "Plan", "AcceptEdits", "BypassPermissions"}

ReadOnlyTools == {"read", "ls", "grep", "web_fetch", "todo"}

\* A tool that is not in the table is one of unknown risk.
Risk(tool) ==
  CASE tool \in ReadOnlyTools -> "ReadOnly"
    [] tool \in {"write", "edit"} -> "Edit"
    [] tool = "shell" -> "Shell"
    [] OTHER -> "Unknown"

\* In plan mode refuses only what the table knows to be dangerous.
CheckKnown(mode, tool) ==
  CASE Risk(tool) = "ReadOnly" \/ mode = "BypassPermissions" -> "Allow"
    [] mode = "Plan" -> IF Risk(tool) = "Unknown" THEN "Ask" ELSE "Deny"
    [] mode = "AcceptEdits" /\ Risk(tool) = "Edit" -> "Allow"
    [] OTHER -> "Ask"

\* In plan mode asks about commands.
CheckEdits(mode, tool) ==
  CASE Risk(tool) = "ReadOnly" \/ mode = "BypassPermissions" -> "Allow"
    [] mode = "Plan" /\ Risk(tool) # "Shell" -> "Deny"
    [] mode = "AcceptEdits" /\ Risk(tool) = "Edit" -> "Allow"
    [] OTHER -> "Ask"

Check(mode, tool) ==
  CASE Risk(tool) = "ReadOnly" \/ mode = "BypassPermissions" -> "Allow"
    [] mode = "Plan" -> "Deny"
    [] mode = "AcceptEdits" /\ Risk(tool) = "Edit" -> "Allow"
    [] OTHER -> "Ask"
===============================================================================
