----------------------------- MODULE MCSession -----------------------------
(* Instances of Session: each configuration asks for one kind of trouble.  *)
EXTENDS Session

CONSTANTS w1, w2, w3

M(op) == [op |-> op, uid |-> Owner, arg |-> ""]
MCBase == [single |-> FALSE, clone_fd |-> FALSE, readfail |-> FALSE, nomem |-> FALSE,
           deny_others |-> FALSE, intr |-> FALSE, defer |-> FALSE, ops |-> {"lookup", "forget", "getattr"},
           script |-> <<M("init"), M("lookup")>>, threads |-> 3, signal |-> FALSE,
           interrupts |-> 0, retrieves |-> 0, abort |-> FALSE]

MCConfigs == {
  \* the pool: more requests than workers may wait for, unmounted at any time
  [MCBase EXCEPT !.script = <<M("init"), M("lookup"), M("forget"), M("getattr")>>, !.abort = TRUE],
  \* cloned channels with late answers, and one thread at most
  [MCBase EXCEPT !.clone_fd = TRUE, !.defer = TRUE, !.abort = TRUE],
  [MCBase EXCEPT !.threads = 1, !.readfail = TRUE, !.nomem = TRUE],
  \* interrupts, with and without the option intr
  [MCBase EXCEPT !.intr = TRUE, !.interrupts = 1],
  [MCBase EXCEPT !.clone_fd = TRUE, !.interrupts = 1, !.script = <<M("init"), M("lookup"), M("open")>>],
  [MCBase EXCEPT !.single = TRUE, !.signal = TRUE, !.abort = TRUE,
                 !.script = <<M("init"), M("lookup"), M("forget")>>],
  \* INIT of other versions, refused requests, retrieves, the end by DESTROY and by signal
  [MCBase EXCEPT !.script = <<[M("init") EXCEPT !.arg = "newer"], [M("init") EXCEPT !.arg = "refused"]>>],
  [MCBase EXCEPT !.script = <<[M("init") EXCEPT !.arg = "old"], M("lookup")>>],
  [MCBase EXCEPT !.deny_others = TRUE, !.abort = TRUE,
                 !.script = <<M("init"), [M("lookup") EXCEPT !.uid = Other], M("lseek"), M("destroy")>>],
  [MCBase EXCEPT !.retrieves = 1, !.abort = TRUE, !.signal = TRUE]}
=============================================================================
