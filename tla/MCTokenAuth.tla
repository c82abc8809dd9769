---------------------------- MODULE MCTokenAuth -----------------------------
(* Model checking of TokenAuth: replicas p1 and p2 of one deployment, whose *)
(* clocks are one unit apart, and p3 of another one with the same key.      *)
EXTENDS TokenAuth

MCAccountOf == [r \in RepoNames |-> IF r = "n1/r" THEN "n1" ELSE "n2"]
MCHost == [p \in Replicas |-> IF p = "p3" THEN "h2" ELSE "h1"]
MCSkew == [p \in Replicas |-> IF p = "p2" THEN 1 ELSE 0]

Viewer == {"view", "pull"} \X {"t1"}
Pusher == {"view", "push"} \X {"t1"}
Admin  == Perms \X {"t1"}
Cloud  == {"view", "pull"} \X Tenants
MCRightSets == {{}, Viewer, Pusher, Admin, Cloud}

MCUsers == {<<"u", "d", "p", "d">>}

Scoped(fields) == [header |-> TRUE, login |-> <<"u", "d", "p">>,
                   service |-> TRUE, offline |-> FALSE, scope |-> fields]
As(login) == [Scoped(<<"repository", "n1/r", {"push"}>>) EXCEPT
                !.login = login]
MCInputs ==
    { Scoped(<<"repository", "n1/r", {"pull"}>>),
      Scoped(<<"repository", "n1/r", {"pull", "push"}>>),
      Scoped(<<"repository", "n2/r", {"push"}>>),
      Scoped(<<"repository", "n1/r", {""}>>),
      Scoped(<<"repository", "N1", {"pull"}>>),
      Scoped(<<"registry", "catalog", {"*"}>>),
      Scoped(<<"registry", "catalog", {""}>>),
      Scoped(<<"registry", "other", {"*"}>>),
      As(<<"u", "d", "p", "d">>), As(<<"u", "d", "p", "e">>), As(<<"u">>),
      Scoped(<<"repository">>),
      Scoped(<<"", "n1/r", {"pull"}>>),
      Scoped(<<>>),
      [Scoped(<<>>) EXCEPT !.offline = TRUE],
      [Scoped(<<>>) EXCEPT !.header = FALSE],
      [Scoped(<<>>) EXCEPT !.service = FALSE] }
=============================================================================
