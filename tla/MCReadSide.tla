----------------------------- MODULE MCReadSide ------------------------------
(* Two agents, five runs (some yet to arrive), five tool spans; windows of *)
(* two hours of two buckets each.  Of the batches, the first has a span    *)
(* from before, the second was compared with an older row, and the third   *)
(* says little.                                                            *)
EXTENDS ReadSide

CONSTANTS A, B

MCRuns == 1 .. 5

Said(a, env, version, prompt, tag, done, by, dur) ==
  [agent |-> a, env |-> env, version |-> version, prompt |-> prompt, tag |-> tag, done |-> done,
   by |-> by, dur |-> dur, input |-> 6, output |-> 3]

MCBatches == {Said(A, "prod", 1, "p", "bad", "no", -4, 7), Said(A, None, 2, None, None, "yes", 5, None),
              Said(B, "dev", None, None, None, None, 0, 9)}

C(r, at, tool, error, named) ==
  [run |-> r, at |-> at, tool |-> tool, error |-> error, dur |-> 1 + at, named |-> named]

MCCalls == {C(1, 0, "search", FALSE, TRUE), C(1, 1, "search", FALSE, TRUE), C(2, 0, "search", TRUE, TRUE),
            C(2, 1, "search", TRUE, TRUE), C(4, 0, "fetch", FALSE, FALSE)}

F(h, tool, sig, severity) == [heuristic |-> h, tool |-> tool, sig |-> sig, severity |-> severity]
ToolError == F("tool_error", "search", "tool_error:search", 80)
Loop == F("loop", "search", "loop:search", 300)
Apology == F("apology_phrase", None, None, 40)

MCFindings == {ToolError, Loop, Apology}
MCOutcomes == {{}, {ToolError, Loop}, {Apology}}

Hit(found, at) == [found |-> found, at |-> at]

Row(start, tag, done, down, a, env, version, dur) ==
  [start |-> start, tag |-> tag, done |-> done, down |-> down,
   agent |-> a, service |-> IF a = A THEN "alpha" ELSE "beta", env |-> env,
   version |-> IF a = None THEN None ELSE <<a, version>>, prompt |-> IF env = "prod" THEN "p" ELSE None,
   dur |-> dur, input |-> 4, output |-> 2]

MCAgents == [a \in {A, B} |-> [name |-> IF a = A THEN "alpha" ELSE "beta", versions |-> {1, 2}]]

MCHistories ==
  {[agent |-> MCAgents,
    run |-> <<Row(6, None, "yes", 0, A, "prod", 1, 2), Row(14, "bad", "no", 2, A, "prod", 2, 6),
              Row(19, None, "no", 0, A, None, 2, None), NoRun, NoRun>>,
    hits |-> <<Hit({}, 8), Hit({ToolError, Loop}, 15), Hit({Apology}, 19), Hit({}, 0), Hit({}, 0)>>],
   [agent |-> MCAgents,
    run |-> <<Row(16, "bad", None, 0, A, "prod", 1, 2), Row(12, "good", "no", 0, A, "prod", 2, 6),
              Row(14, "bad", None, 1, A, None, 2, None), Row(13, None, "yes", 0, B, "dev", 1, 4), NoRun>>,
    hits |-> <<Hit({Loop}, 17), Hit({ToolError}, 15), Hit({}, 14), Hit({Loop, ToolError}, 18), Hit({}, 0)>>]}

AnyRun == [agent |-> None, env |-> None, version |-> None, tag |-> "any"]
MCFilters == {AnyRun, [AnyRun EXCEPT !.agent = "alpha"], [AnyRun EXCEPT !.tag = "bad"], [AnyRun EXCEPT !.env = "prod"]}

MCAges == {0, 4}
MCTags == {None, "bad"}

MCLog2 == <<0, 100, 158, 200, 232, 258, 281, 300, 317, 332>>
MCDecay == <<100, 92, 84, 77, 71, 65, 59, 55, 50, 46, 42, 39, 35, 32, 30, 27, 25, 23, 21, 19, 18, 16, 15, 14, 12>>
==============================================================================
