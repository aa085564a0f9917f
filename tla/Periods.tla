------------------------------ MODULE Periods ------------------------------
(***************************************************************************)
(* What the resource oracle promises, without oracles: periods follow each *)
(* other; in each, the inflation for its true total is issued, once, then  *)
(* each of its true datasets is paid, once, in any order, and only then    *)
(* does the period close.  Governance may move the start of a period in    *)
(* which nothing has been paid.  ResourceOracle implements it.             *)
(***************************************************************************)
EXTENDS Integers, Sequences

CONSTANTS
    Reports,        \* Reports[p]: what is true of the period that starts at p
    PeriodSeconds,  \* period_seconds
    PeriodCap,      \* most tokens a period may issue
    MaxSupply,      \* max_supply of the core token
    InitialSupply,  \* supply at the start
    MaxDays         \* periods that may issue inflation

VARIABLES
    start,          \* start of the open period
    issued,         \* totals its inflation was issued for: none or one
    paid,           \* its datasets that are paid: id -> text
    days,           \* periods that have issued inflation
    supply          \* supply of the core token

vars == <<start, issued, paid, days, supply>>

Init ==
    /\ start = 0
    /\ issued = {}
    /\ paid = <<>>
    /\ days = 0
    /\ supply = InitialSupply

\* The inflation of the open period is issued for its true total.
Issue ==
    /\ start \in DOMAIN Reports
    /\ issued = {}
    /\ days < MaxDays
    /\ issued' = {Reports[start].total.cpu}
    /\ days' = days + 1
    /\ supply' \in supply..(supply + PeriodCap)
    /\ supply' <= MaxSupply
    /\ UNCHANGED <<start, paid>>

\* The true dataset number k of the open period is paid.
Pay(k) ==
    /\ issued # {}
    /\ k \notin DOMAIN paid
    /\ paid' = [i \in DOMAIN paid \cup {k} |->
                    IF i = k THEN Reports[start].data[k].text ELSE paid[i]]
    /\ UNCHANGED <<start, issued, days, supply>>

\* Everything is paid, and the next period begins.
Close ==
    /\ start \in DOMAIN Reports
    /\ issued # {}
    /\ DOMAIN paid = 1..Len(Reports[start].data)
    /\ start' = start + PeriodSeconds
    /\ issued' = {}
    /\ paid' = <<>>
    /\ UNCHANGED <<days, supply>>

\* Nothing is paid yet, and the period is to begin at p.
Restart(p) ==
    /\ issued = {}
    /\ DOMAIN paid = {}
    /\ start' = p
    /\ UNCHANGED <<issued, paid, days, supply>>

Next ==
    \/ Issue
    \/ start \in DOMAIN Reports /\ \E k \in 1..Len(Reports[start].data) : Pay(k)
    \/ Close
    \/ \E p \in DOMAIN Reports : Restart(p)

Spec == Init /\ [][Next]_vars
=============================================================================
