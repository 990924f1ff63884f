-------------------------- MODULE MCFirmwarePanel --------------------------
(* Files, addresses and contents of FirmwarePanel for TLC. *)
EXTENDS FirmwarePanel

\* 0x01 is another spelling of 0x1, zz stands for what is no address.
MCTexts == {"0x0", "0x1", "0x01", "zz"}
MCValue == [t \in MCTexts |-> CASE t = "0x0" -> 0
                                [] t = "0x1" -> 1
                                [] t = "0x01" -> 1
                                [] t = "zz" -> -1]

\* A short and a longer file, with different bytes.
MCBuilds == {<<1>>, <<2, 3>>}

\* One row, two of one file, neighbours that may overlap, with the output of the
\* merges after the other file and before it, one number spelled in two ways, an
\* address that is none.
MCLoaded == { << <<"app", "0x0">> >>,
              << <<"app", "0x0">>, <<"app", "0x1">> >>,
              << <<"out", "0x1">>, <<"app", "0x0">> >>,
              << <<"out", "0x0">>, <<"app", "0x1">> >>,
              << <<"app", "0x1">>, <<"out", "0x01">> >>,
              << <<"app", "zz">> >> }

\* The file app is recognised, the others are not.
MCKnownAddress == [p \in {"app", "out"} |-> IF p = "app" THEN "0x1" ELSE "0x0"]
=============================================================================
