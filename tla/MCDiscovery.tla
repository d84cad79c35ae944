----------------------------- MODULE MCDiscovery ----------------------------
(* A Claude transcript of two messages, a Codex rollout forked from another  *)
(* session whose clock was ahead, and a file of neither kind, one row over   *)
(* the limit; and four Cursor threads of any sort, two of them to keep.      *)
EXTENDS Discovery

CONSTANTS claude, codex, notes, own, ancestor

MCFormat == [f \in File |-> IF f = claude THEN "claude"
                            ELSE IF f = codex THEN "codex" ELSE "other"]
Line(k, s, t) == [kind |-> k, session |-> s, time |-> t]
MCScript ==
    [f \in File |->
        IF f = claude
        THEN <<Line("message", claude, 1), Line("message", claude, 2)>>
        ELSE IF f = codex
        THEN <<Line("header", own, 2), Line("header", ancestor, 1),
               Line("message", codex, 0)>>
        ELSE <<>>]

ASSUME CodexWritesItsHeaderFirst == HeadersOpen

CONSTANTS t1, t2, t3, t4

MCOrder == <<t1, t2, t3, t4>>
Chat(k, c, u, b, s) == [kind |-> k, created |-> c, updated |-> u, bubbles |-> b,
                        revision |-> 0, bytes |-> s, bubblebytes |-> IF k = "rows" THEN b ELSE 0]
Chats == {Chat("inline", 1, 1, 1, 1), Chat("inline", 2, 0, 1, 1), Chat("rows", 2, 2, 1, 1),
          Chat("rows", 1, 0, 0, 1), Chat("inline", 3, 3, 1, 9), Chat("null", 0, 0, 0, 0),
          Chat("junk", 0, 0, 0, 1)}
MCInitially == [Thread -> Chats]
=============================================================================
