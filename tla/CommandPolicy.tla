---------------------------- MODULE CommandPolicy ----------------------------
(***************************************************************************)
(* What ssh_mcp/security.py and handlers/utils.py decide about a command.  *)
(* The patterns themselves are regular expressions over text; here a       *)
(* command is a record of what they find in it, and the operators are the  *)
(* decisions the code takes from that, in the code's order.                *)
(***************************************************************************)
EXTENDS Naturals, Sequences

Level == {"strict", "balanced", "relaxed"}

Risk == {"safe", "low", "medium", "high", "critical"}

\* The lists that may have the first word of a command.  A word may be in
\* several: EXTENDED_COMMANDS repeats rm and systemctl, and stat is in the strict
\* list but not in the base list.
List == {"strict", "base", "extended", "extra"}

\* What makes more than one command of a line, or redirects it.
Sign == {"ampersand", "pipe", "semicolon", "substitution", "redirect", "newline"}

CONSTANT Name            \* names of files that commands delete

\* parts: the files each part of the line removes, one part unless the line has
\* a semicolon between two removals.  server: should_run_background takes it for a
\* server.  leaves: it ends its shell itself (exit, exec).
Command ==
  [lists : SUBSET List, signs : SUBSET Sign, risk : Risk,
   catastrophic : BOOLEAN, blacklisted : BOOLEAN, launchBlocked : BOOLEAN,
   keyword : BOOLEAN, long : BOOLEAN, parses : BOOLEAN,
   server : BOOLEAN, leaves : BOOLEAN, parts : Seq(SUBSET Name)]

-----------------------------------------------------------------------------
(* CommandValidator.                                                       *)

AllowedLists(level) ==
  {"extra"} \cup (CASE level = "strict"   -> {"strict"}
                    [] level = "balanced" -> {"base"}
                    [] level = "relaxed"  -> {"base", "extended"})

DangerousSigns(level) ==
  CASE level = "strict"   -> Sign
    [] level = "balanced" -> Sign \ {"redirect"}
    [] level = "relaxed"  -> {}

HardBlocked(cmd) == cmd.catastrophic

\* validate_command returns and does not raise.
Valid(level, cmd) ==
  /\ ~HardBlocked(cmd)
  /\ cmd.parses
  /\ ~cmd.long
  /\ IF level = "relaxed"
       THEN ~cmd.blacklisted
       ELSE /\ cmd.lists \cap AllowedLists(level) # {}
            /\ cmd.signs \cap DangerousSigns(level) = {}
            /\ ~cmd.keyword

RequiredConfirmations(cmd) ==
  CASE cmd.risk = "critical" -> 3
    [] cmd.risk = "high"     -> 2
    [] cmd.risk = "medium"   -> 1
    [] OTHER                 -> 0

\* check_multi_layer_confirmation.
Confirmed(cmd, confirm, layer) ==
  \/ RequiredConfirmations(cmd) = 0
  \/ confirm /\ layer >= RequiredConfirmations(cmd)

-----------------------------------------------------------------------------
(* Deletions.                                                              *)

\* parse_deletion_command looks at the first word of the line only.
IsDeletion(cmd) == cmd.parses /\ cmd.parts # <<>> /\ Head(cmd.parts) # {}

\* It takes the rest of the line for targets: with a second part these contain
\* words such as "a;" and "rm", which no file is called.
TargetsAreFiles(cmd) == Len(cmd.parts) = 1

Targets(cmd) == Head(cmd.parts)

Removes(parts) == UNION {parts[i] : i \in DOMAIN parts}

\* should_run_background, and the argument that overrides it.
Background(cmd, wish) == IF wish = "auto" THEN cmd.server ELSE wish = "yes"
=============================================================================
