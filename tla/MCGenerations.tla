---------------------------- MODULE MCGenerations ----------------------------
(***************************************************************************)
(* Up to two registers for TLC.  From "start" the file may turn into one   *)
(* with another formula for a (the poller keeps running), with another     *)
(* source for a, which then cannot be written (the poller is replaced), or *)
(* into one that does not compile; torn it is a valid file that lacks a.   *)
(***************************************************************************)
EXTENDS Generations, TLC

MCRecipe(c, t) ==
  [source    |-> IF c = "source" /\ t = "a" THEN 2 ELSE 1,
   transform |-> IF c = "formula" /\ t = "a" THEN 2 ELSE 1]

MCCfg ==
  [c \in Config |->
     [regs     |-> [t \in IF c = "torn" THEN Tag \ {"a"} ELSE Tag |->
                      MCRecipe(c, t)],
      writable |-> IF c \in {"source", "torn"} THEN {} ELSE {"a"},
      plan     |-> 1,
      startup  |-> 1,
      loads    |-> TRUE,
      compiles |-> c # "bad"]]

MCTarget == [w \in Write |-> "a"]
=============================================================================
