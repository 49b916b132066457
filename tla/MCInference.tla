----------------------------- MODULE MCInference -----------------------------
(* Instances of Inference for TLC: what the test provider returns, and two *)
(* calls of the status tool one after the other.                           *)
EXTENDS Inference

Reply(kind) == [op |-> "reply", kind |-> kind]
Call(tool, expected) == [op |-> "tool", tool |-> tool, expected |-> expected]

TestScripts ==
    { <<Reply("chunk"), Call("diagnostic", 0), Reply("completed")>>,
      <<Call("status", 1), Reply("completed")>>,
      <<Call("status", 1), Call("status", 2), Reply("failed")>> }
=============================================================================
