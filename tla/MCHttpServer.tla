---------------------------- MODULE MCHttpServer ----------------------------
(* A small instance of HttpServer: a scratch buffer of 4 bytes.            *)
EXTENDS HttpServer

MCInitPort == [ state |-> CLOSED, switch |-> 2, interval |-> 2,
                required |-> 2, current |-> 0 ]

(* A whole configuration that fills the buffer and one that is too long by a
   byte, one without a quantity, one without an interval, and no JSON.     *)
MCBodies ==
  { [len |-> 3, json |-> TRUE, members |-> Members,
     interval |-> 3, quantity |-> 2],
    [len |-> 4, json |-> TRUE, members |-> Members,
     interval |-> 3, quantity |-> 2],
    [len |-> 2, json |-> TRUE, members |-> {"interval", "duration"},
     interval |-> 5, quantity |-> 4],
    [len |-> 2, json |-> TRUE, members |-> {"quantity"},
     interval |-> 3, quantity |-> 4],
    [len |-> 0, json |-> FALSE, members |-> {}] }

(* Two whole configurations.                                               *)
MCPlans ==
  { [len |-> 1, json |-> TRUE, members |-> Members, interval |-> 3, quantity |-> 2],
    [len |-> 1, json |-> TRUE, members |-> Members, interval |-> 5, quantity |-> 4] }
=============================================================================
