---------------------------- MODULE MCH2Session ----------------------------
(* Instances of H2Session: one evhtp_t with two virtual hosts. *)
EXTENDS H2Session

CONSTANTS main, vhost1, vhost2

MCVhosts  == {vhost1, vhost2}
MCHost    == [s \in Streams |-> CASE s = 1 -> vhost1 [] s = 2 -> vhost2 [] OTHER -> main]
MCOneHost == [s \in Streams |-> main]
=============================================================================
