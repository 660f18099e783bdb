------------------------------ MODULE MCMetrics ------------------------------
(* Trainings that log what one probe, or one signature, reads. *)
EXTENDS Metrics

Logs(keys, vals, rows) == [logs |-> [k \in keys |-> vals], rows |-> [k \in keys |-> rows]]

MCHealth ==
    [reward_std_min |-> 1, reward_std_patience |-> 3, kl_max |-> 4, entropy_min |-> 1,
     format_success_min |-> 90, clip_max |-> 30, completion_len |-> <<64, 4096>>,
     throughput_degradation_pct |-> 30, grad_norm_min |-> 1, grad_norm_max |-> 1000,
     plateau_window |-> 3, eval_patience |-> 2, rollout_duration_multiplier |-> 4,
     seq_len_p95_warn_pct |-> 90]

MCBaselines == [rollout |-> 10, throughput |-> 10]

MCTrainings ==
    {Logs({"reward/std"}, {0, 1, NaN}, 7),
     Logs({"train/loss"}, {0, 1, NaN}, 6),
     Logs({"eval/score"}, {0, 1, 2, NaN}, 6),
     Logs({"kl/ref"}, {0, 1, 2, 3, 4, 5, NaN}, 5),
     Logs({"policy/entropy"}, {0, 1, 2, 3}, 6),
     Logs({"train/loss", "train/reasoning_token_accuracy"}, {0, 1, 2}, 4),
     Logs({"reward/mean", "kl/ref", "eval/score"}, {0, 1, 2}, 3),
     Logs({"reward/mean", "repl/mean_turns", "repl/nontrivial_fraction"}, {0, 1, 2}, 3),
     Logs({"completion/length"}, {10, 64, 4096, 9999}, 2),
     Logs({"format/success_rate", "clip_fraction"}, {20, 89, 90}, 2),
     Logs({"rollout/duration_s"}, {10, 25, 41}, 2),
     Logs({"system/gpu.0.memoryAllocated", "system/gpu.1.memoryAllocated"}, {50, 86}, 2),
     Logs({"reward_model/error_rate", "reward_model/p99_latency_s"}, {0, 2, 6}, 2),
     Logs({"train/grad_norm"}, {0, 1, 1001}, 2),
     Logs({"train/throughput"}, {5, 7, 10}, 4),
     Logs({"train/seq_len_p95"}, {80, 90}, 2),
     Logs({"train/packing_efficiency"}, {59, 60}, 2)}
==============================================================================
