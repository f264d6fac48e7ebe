------------------------------ MODULE MCWorkflow ------------------------------
(* Workflow for TLC: two queries of two pages.  The first page shows a card
   twice, its job comes back under the second query, whose second page is empty,
   and c is ruled out by its title.  Live, the daily cap bites before the session's
   when another run has applied; dry, one rehearsal is all there is. *)
EXTENDS Workflow, TLC

CONSTANTS a, b, c

MCShown ==
    (<<1, 1>> :> <<a, b, a>>) @@ (<<1, 2>> :> <<c>>)
    @@ (<<2, 1>> :> <<a>>) @@ (<<2, 2>> :> <<>>)

With(dry, applications, jobs) ==
    [dryRun |-> dry, maxApplications |-> applications, maxJobs |-> jobs]

MCModes ==
    {With(FALSE, 2, 2), With(TRUE, 1, Unlimited)}
=============================================================================
