----------------------------- MODULE MCIncoming -----------------------------
(* Model checking of Incoming.  The states are compared by what a later        *)
(* action or a property still asks: after the last event nothing reads         *)
(* the trackers, which the agent's reply only writes; after a failed call, or  *)
(* once both workers were about to create the same thing, no property asks who *)
(* gave up a message or whether a conversation was resolved, and after a       *)
(* failed call none asks who wrote a message and with which header.            *)
EXTENDS Incoming

Conversations ==
  IF failures = 0 THEN convs
  ELSE [c \in DOMAIN convs |-> [open |-> convs[c].open, msgs |-> Posted(c)]]
Carried ==
  IF failures = 0 THEN item
  ELSE [w \in Workers |-> [id |-> item[w].id, kind |-> item[w].kind]]

WhatMatters ==
  << contact, Conversations, agent, events, sent, at, Carried, conv, tries, cancelled, result,
     waids, looks, marked, seen, shown, failures, raced,
     IF events < MaxEvents THEN <<burst, recent, replies>> ELSE <<>>,
     IF Calm THEN <<resolved, refused>> ELSE <<>>,
     IF failures = 0 THEN media ELSE {} >>
=============================================================================
