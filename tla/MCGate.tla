------------------------------- MODULE MCGate -------------------------------
(***************************************************************************)
(* The gate on a sound pod with two GPUs and on every pod that differs     *)
(* from it in at most one fact, or in one fact and one of the facts that   *)
(* decide what happens afterwards.                                         *)
(***************************************************************************)
EXTENDS Gate

Wired == [h \in Hooks |-> "right"]

Sound ==
  [gpus |-> 2, type |-> "expected", vram |-> "free", torch |-> 2, defect |-> "none",
   nccl |-> TRUE, statvfs |-> 9, used |-> 1, du |-> TRUE, volume |-> "good",
   key |-> "write", console |-> TRUE, webhook |-> "off", run |-> "readable",
   canary |-> "back", local |-> "logs", hook |-> Wired]

Deviations ==
  [gpus    |-> {0, 1, 3},
   type    |-> {"other"},
   vram    |-> {"resident"},
   torch   |-> {NoTorch, 0, 1},
   defect  |-> {"unreported", "correctable", "retired", "uncorrectable", "xid"},
   nccl    |-> {FALSE},
   statvfs |-> {Missing, 1},
   used    |-> {2, 4},
   du      |-> {FALSE},
   volume  |-> {"refuses", "lies"},
   key     |-> {"absent", "readOnly", "noAnswer"},
   console |-> {FALSE},
   webhook |-> {"takes", "rejects", "raises"},
   run     |-> {"unset", "unreadable"},
   canary  |-> {"unwired", "lost", "raises"},
   local   |-> {"none", "raises"},
   hook    |-> {[Wired EXCEPT ![h] = o] : h \in Hooks, o \in {"unwired", "raises", "wrong", "hangs"}}]

Field == DOMAIN Deviations

Deviating(w, fs) == UNION {{[w EXCEPT ![f] = v] : v \in Deviations[f]} : f \in fs}

MCWorlds ==
  {Sound} \cup Deviating(Sound, Field)
          \cup UNION {Deviating(w, {"key", "du", "hook"}) : w \in Deviating(Sound, {"used", "run", "console", "key", "defect"})}

MCLater ==
  {Sound, [Sound EXCEPT !.volume = "refuses"], [Sound EXCEPT !.key = "readOnly"],
   [Sound EXCEPT !.hook["load_model"] = "hangs"]}

MCProbe    == {GateProbes[i] : i \in 1 .. Len(GateProbes)}
NoOverride == [p \in {} |-> LOG]
NoSweep    == {}
=============================================================================
