------------------------------- MODULE MCBoot -------------------------------
EXTENDS Boot

Card(kind, part, vol) == [kind |-> kind, part |-> part, vol |-> vol]
AllCards == {Card("SDHC", TRUE, "fat32"), Card("SD2", FALSE, "fat16"),
             Card("SD1", TRUE, "fat16"), Card("MMC", FALSE, "blank")}
=============================================================================
