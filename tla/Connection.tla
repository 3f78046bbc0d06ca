----------------------------- MODULE Connection ------------------------------
(***************************************************************************)
(* ThreadStream with its parameters and under names of its own, for TLC,   *)
(* and for the proofs that are beside those of another component.          *)
(*                                                                         *)
(* For TLC four units, one of them reserved, and notifications of one or   *)
(* of two units, so that a small one may overtake a large one.             *)
(***************************************************************************)
CONSTANTS Capacity, Reserved, MaxWaiters, Units, Answers, MaxSeq, MaxRequests
VARIABLES seq, phase, writer, inbound, handling, client, requests, causes

Stream == INSTANCE ThreadStream

ASSUME LimitsAssumption == Stream!Limits
ASSUME BoundsAssumption == Stream!Bounds

ConnectionSpec       == Stream!Spec
ConnectionFairSpec   == Stream!FairSpec
ConnectionSilentSpec == Stream!SilentSpec

MessagesTyped           == Stream!TypeOK
BudgetIsKept            == Stream!BudgetIsKept
ResponseIsNotHeldUp     == Stream!ResponseIsNotHeldUp
FreshIsComplete         == Stream!FreshIsComplete
NeverGoesBack           == Stream!NeverGoesBack
ArrivesOrCloses         == Stream!ArrivesOrCloses
StaleIsRepaired         == Stream!StaleIsRepaired
CompactionIsInterrupted == Stream!CompactionIsInterrupted
=============================================================================
