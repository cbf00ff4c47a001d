------------------------------- MODULE MCNpu -------------------------------
(***************************************************************************)
(* Instances of Npu.tla: programs of the host.                             *)
(***************************************************************************)
EXTENDS Npu

E(c) == <<"enqueue", c>>
Finishing == E(<<"finish">>)
Bell == <<"doorbell">>
Interrupt == <<"wait_for_interrupt">>

\* Two rows and five columns (two tiles wide) on two cores: the cores take
\* turns and the last tile is not full.  Row m of A is Data(m), columns of B
\* Data(2 + n), the result goes to Data(4 ..) in TCDM and back to Data(4 ..).
Matmul ==
  <<E(<<"dma_read", Data(0), Data(0), 4>>), E(<<"cfg_matmul", 2, 5>>),
    E(<<"matmul", Data(0), Data(2), Data(4)>>), E(<<"wait_compute">>),
    E(<<"dma_write", Data(4), Data(4), 4>>), Finishing, Bell, Interrupt>>

\* A doorbell after each command: the second one may come at any time.
Twice ==
  <<E(<<"dma_read", Data(0), Data(1), 1>>), Bell,
    E(<<"dma_write", Data(2), Data(1), 1>>), E(<<"wait_dma">>), Finishing, Bell, Interrupt>>

Pool ==
  <<E(<<"dma_read", Data(0), Data(0), 1>>), E(<<"maxpool", Data(0), Data(1)>>), Bell, E(<<"wait_compute">>),
    E(<<"dma_write", Data(1), Data(1), 1>>), Finishing, Bell, Interrupt>>

\* A queue of seven takes six commands, for ever.
Overfull ==
  <<E(<<"nop">>), E(<<"nop">>), E(<<"nop">>), E(<<"nop">>), E(<<"nop">>), E(<<"nop">>), E(<<"nop">>), Bell>>

MCPrograms == {Matmul, Twice, Pool, Overfull, host_main}

HostMain == {host_main}
=============================================================================
