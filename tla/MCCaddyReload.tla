--------------------------- MODULE MCCaddyReload ---------------------------
(* The instance for TLC: servers with and without plugins and routes, two  *)
(* clients, and the combinations that do not provision.                    *)
EXTENDS CaddyReload

MCConfig ==
  {c \in Fields : c.plugin => c.route}
=============================================================================
