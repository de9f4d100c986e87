----------------------------- MODULE MCAVEngine -----------------------------
(* A small instance of AVEngine: two engines of the screen, both senders or *)
(* both receivers, which share the key of their one peer. Only one of them  *)
(* streams, and only receivers of the screen have a server.                 *)
EXTENDS AVEngine, TLC

MCListener == Engine \cup {Provider}
MCMade == {f \in [Engine -> Sess] : \A e, o \in Engine : f[e] = f[o]}
MCServerSess == {<<"screen", "receiver">>}

=============================================================================
