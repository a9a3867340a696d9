--------------------------- MODULE MCRecoveryFetch ---------------------------
EXTENDS RecoveryFetch

Deployment(block, retries, deadline, objects, offers, negotiates) ==
    [block |-> block, retries |-> retries, deadline |-> deadline,
     maximum |-> 4, capacity |-> 4, objects |-> objects, offers |-> offers,
     negotiates |-> negotiates, reliable |-> FALSE, backend |-> "snp"]

Undisturbed(d) == [d EXCEPT !.reliable = TRUE]
Pxe(d) == [d EXCEPT !.backend = "pxe"]

\* Blocks as requested with a retry, smaller blocks without one, and a server
\* that does not know the option when its block size is the requested one
SnpDeployments ==
    {Deployment(2, 1, 3, <<3, 2>>, {2}, TRUE),
     Deployment(2, 0, 2, <<1, 4>>, {1, 2}, TRUE),
     Deployment(2, 1, 2, <<4, 0>>, {2}, FALSE)}

MCDeployments ==
    SnpDeployments
    \cup {Undisturbed(d) : d \in SnpDeployments}
    \cup {Undisturbed(Pxe(d)) : d \in SnpDeployments}
    \cup {[Deployment(2, 0, 2, <<3, 2>>, {2}, TRUE) EXCEPT !.capacity = 3],
          [Deployment(2, 0, 2, <<5, 2>>, {2}, TRUE) EXCEPT !.reliable = TRUE],
          [Deployment(2, 0, 2, <<2, 4>>, {2}, TRUE) EXCEPT !.maximum = 3]}

\* A binding without retries, a network that loses nothing and a server that
\* does not know the blksize option and sends blocks of the default size,
\* smaller than the requested one
OptionlessDeployment ==
    {[Deployment(2, 0, 2, <<3>>, {1}, FALSE) EXCEPT !.reliable = TRUE]}
=============================================================================
