----------------------------- MODULE MCRuntimes -----------------------------
(* Small instance of RuntimePlugins: see MCRuntimes.cfg.                     *)
EXTENDS RuntimePlugins

(* Both workloads together with Docker, whose requests are those of Podman; one *)
(* at a time with containerd, whose calls have up to fifteen steps.             *)
MCScopes == {<<"docker", {"old", "new"}>>, <<"podman", {"old"}>>, <<"podman", {"new"}>>,
             <<"containerd", {"old"}>>, <<"containerd", {"new"}>>}

MCContainerdScopes == {<<"containerd", {"new"}>>}
=============================================================================
