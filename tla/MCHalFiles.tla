----------------------------- MODULE MCHalFiles -----------------------------
EXTENDS HalFiles

CONSTANTS jtag, null, missing

MCName == {jtag, null, missing}
MCOpenFlags == {{}, {"O_WRONLY"}, {"O_RDWR", "O_NONBLOCK", "ALT_FD_EXCL"}}
=============================================================================
