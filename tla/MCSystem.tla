------------------------------ MODULE MCSystem ------------------------------
(***************************************************************************)
(* LC3SystemRun on the echo program of the default bitstream and on        *)
(* monitors that start user code.                                          *)
(***************************************************************************)
EXTENDS LC3SystemRun, LC3Programs

MCKeys == 1 .. MaxKeys

\* programs/top/lc3_uart_echo.asm, word for word.
Echo == At(33, <<12544>>)
        @@ At(12288, <<LDI(0, 4), BR(ZP, -2), LDI(0, 3), TRAP(33), BR(NZP, -5),
                       KBSR_ADDR, KBDR_ADDR>>)
        @@ At(12544, <<ST(1, 5), LDI(1, 5), BR(ZP, -2), STI(0, 4), LD(1, 1),
                       RET, 0, DSR_ADDR, DDR_ADDR>>)

\* It starts at x3000; a jump there from where the monitors below start.
Boot == At(512, <<LD(7, 1), RET, 12288>>)

EchoImages == {Echo @@ Boot}

\* A monitor at x0200 that loads R6, enables the keyboard interrupt, opens
\* pages x0 to xB, starts the timer and leaves for x3000 with `jump'; there
\* three words of user code; a handler that reads the character; the operating
\* system's HALT with a store after it that a halted machine must not perform.
Monitor(jump, user) ==
    At(512, <<LD(6, 12), LD(0, 8), STI(0, 11), LD(0, 7), STI(0, 10), LD(0, 6),
              STI(0, 9), LD(7, 5), jump, BR(NZP, -1),
              16384, 4095, 2, 12288, KBSR_ADDR, MPR_ADDR, TMI_ADDR>>)
    @@ At(12288, user)
    @@ At(12292, <<MPR_ADDR, FRAMEBUFFER_START>>)
    @@ At(384, <<1024>>)
    @@ At(1024, <<LDI(0, 1), RTI, KBDR_ADDR>>)
    @@ At(37, <<768>>)
    @@ At(768, <<LDI(1, 6), LD(0, 4), ANDR(0, 1, 0), STI(0, 3), ST(0, 4), RTT,
                 32767, MCR_ADDR>>)

UserPrograms == {
    <<INV(3, 3), ST(3, 14), BR(NZP, -3)>>,      \* works in its own page
    <<STI(3, 3), BR(NZP, -2), RTI>>,            \* writes the MPR, if allowed
    <<STI(3, 4), BR(NZP, -2), RTI>>,            \* writes a page not opened
    <<TRAP(37), STR(3, 6, 0), BR(NZP, -2)>> }   \* halts the machine

MonitorImages ==
    {Monitor(jump, user) : jump \in {RET, RTT}, user \in UserPrograms}

MCImages == EchoImages \cup MonitorImages
=============================================================================
