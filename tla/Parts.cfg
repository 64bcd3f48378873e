SPECIFICATION PartsSpec
CONSTANTS
  Cards <- CardList
  Wired = {"eth0"}
  Text = Text
  Blank = Blank
  Measured <- SmallMeasured
  MaxSensors = 2
  Block <- BlockList
  Plugged = {"sda", "sdb"}
  HdSd = {"sda", "sdb", "sdc", "hda"}
  Removable = {"sdb"}
  MaxDisks = 2
  CpuLines = {"cpu0", "cpu1"}
  Listings <- CpuListings
  MaxCpus = 2
  Wrap = 3
  MaxTicks = 1
  Cores <- CoreNumbers
  Memory <- MemorySizes
  Reserve = 9
  Unit = 4
  Percent = 94
  Step = 3
  Width = 10000
  Factor = 963
  Scale = 1024
  Digits = 1024
  Powers <- SmallPowers
INVARIANT TableWhole
INVARIANT SentId
INVARIANT SensorsParsed
INVARIANT ReportTrue
INVARIANT TableOfDisks
INVARIANT SpeedAtItsDisk
INVARIANT NoSegmentLeft
INVARIANT UsageRight
INVARIANT GridOfAllCores
INVARIANT MatrixFits
PROPERTY Reports
