----------------------------- MODULE MCBinaries -----------------------------
(* Restore: two hosts with a repository acme/widget, a checkout of each, and *)
(* a session in each that moves; the first ran at the root, and is then      *)
(* written by another harness.  Command: sweeps, daemons, health checks and  *)
(* lines to refuse.  Root: a path through a link that root made, with a      *)
(* directory to make, one shared with others, one in place, and spare ones   *)
(* to put there.                                                             *)
EXTENDS Binaries, TLC

CONSTANTS p1, p2, r1, r2, s1, s2

Widget(h, x) == [host |-> h, path |-> <<"acme", "widget">>, suffix |-> x]
MCOrigin == (<<"home", "widget">> :> Widget("one", TRUE))
         @@ (<<"widget", "widget">> :> Widget("two", FALSE))
         @@ (<<"work", "copy">> :> Widget("one", FALSE))
         @@ (<<"none">> :> NoOrigin)
At(h, d) == [harness |-> h, cwd |-> d]
MCCapture ==
    (s1 :> <<At("ClaudeCode", <<"home", "widget">>),
             At("Codex", <<"home", "widget", "api">>)>>)
 @@ (s2 :> <<At("ClaudeCode", <<"widget", "widget", "api">>),
             At("ClaudeCode", <<"work", "copy", "api">>)>>)
MCTracked == {<<>>, <<"api">>, <<"widget">>, <<"widget", "api">>}
MCWorkplace == {NoOrigin, Widget("two", FALSE)}

MCNumber == [v \in Value |-> CASE v = "0" -> 0 [] v = "7" -> 7 [] v = "90" -> 90
                               [] OTHER -> -1]
MCLines ==
    p1 :> {<<>>, <<"--health">>, <<"--dry-run">>, <<"--unknown">>, <<"7">>,
           <<"--json", "--ignore-state">>, <<"--health", "--json">>,
           <<"--health", "--ignore-state">>, <<"--version", "--health", "--json">>,
           <<"--spool-only", "--ignore-state">>, <<"--limit", "7", "--spool-only">>,
           <<"--limit", "0", "--spool-only">>, <<"--capture-drain", "90">>}
 @@ p2 :> {<<"--loop", "0">>}

CONSTANTS top, link, usr, ours, shared, new, new2

MCOwner == [n \in Node |-> IF n \in {top, link, usr} THEN "root" ELSE "self"]
MCMode  == [n \in Node |-> IF n = shared THEN "shared" ELSE
                           IF n \in {new, new2} THEN "private" ELSE "readable"]
MCTarget == link :> [absolute |-> FALSE, parts |-> <<"usr", "..", "usr">>]
Bare == [e \in (Node \ {link}) \X Name |->
            IF e = <<top, "var">> THEN link ELSE IF e = <<top, "usr">> THEN usr ELSE Free]
MCEntries == {Bare, [Bare EXCEPT ![<<usr, "spool">>] = ours]}
MCRoot == <<"var", "spool">>
MCSymmetry == Permutations(Restorer)
=============================================================================
