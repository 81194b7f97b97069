---------------------------- MODULE MCTxLiveness ----------------------------
(* Small instances of DebouncedPipeline for TLC. *)
EXTENDS MCTxPipeline, DebouncedPipeline

Troubled == [Plain EXCEPT !.faults = OnTheNode \cup {"signRefused"},
               !.disturbances = {"foreignIncluded", "evicted", "checkRefuses"},
               !.maxDisturbed = 1]
Reloaded == [Plain EXCEPT !.requests = 1, !.maxAppReloads = 1, !.maxDisturbed = 1,
               !.faults = {"answerLost", "noAccount", "estimateFails"},
               !.disturbances = DisturbanceKinds]
OneByOne == [Plain EXCEPT !.window = 1, !.requests = 3,
               !.disturbances = {"foreignIncluded"}, !.maxDisturbed = 1]

LivenessScenarios == {Troubled, Reloaded, OneByOne, Undisturbed,
                      MergingOne, [Merging EXCEPT !.maxDisturbed = 0,
                         !.faults = {"execFails"}],
                      [Merging EXCEPT !.merge = "opts", !.requests = 1,
                         !.faults = {}],
                      [Async EXCEPT !.maxAppReloads = 0, !.maxDisturbed = 1,
                         !.faults = {"answerLost"}],
                      [Sync EXCEPT !.maxAppReloads = 0, !.maxDisturbed = 1],
                      [Mixed EXCEPT !.requests = 2]}
=============================================================================
