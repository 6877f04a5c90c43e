# TETRA_ROS2_EDU: TLA+ specifications, model checking and proofs

This directory specifies the control software of the TETRA-DS robot: the ROS 2
nodes `tetra`, `tetra_service`, `virtual_wall` and `tetra_interface`, their
serial drivers, the lidar driver and the web server of the camera streams.
Source paths are relative to `src/`, and `PROJECT.json` maps every definition
to its lines.

## 1. The system

| component | state | operations | interacts with |
|---|---|---|---|
| `tetra` (drive node, `tetra/src/tetra.cpp`) | requested and ramped velocity, position/velocity mode, joystick enable, last bumper, EMG and error readings | 60 Hz main loop; callbacks `cmd_vel_nav2`, `cmd_vel_manual`, `joy`, `accel_vel`, `pose_reset`, `servo_on`, `power_status`; services for parameters, mode and position moves | motor controller (serial line); publishes odometry, bumper, EMG state |
| serial drivers (`tetra/src/drive_module.c`, `tetra_interface/src/power_module.c`, `rs232_common.c`) | bytes on the line | request and answer with timeout, LRC, sign-magnitude numbers | motor controller, power board |
| `tetra_service` (`tetra_service/src/tetra_service.cpp`) | docking mode and counters, tag pose, charger contact, AMCL flags, retry counter, come-home flag, goals at Nav2 | 10 ms docking timer; tag, charger, AMCL, initial pose and joystick callbacks; services to dock, stop, go, cancel, save and load; result callbacks | publishes `cmd_vel_manual` (to `tetra`), sends goals to Nav2, reads `detections`, `docking_status`, `bumper_data`, `emg_state` |
| `led_control_node` (`tetra_service/src/led_control_node.cpp`) | last LED state | timer | LED services of `tetra_interface` |
| `tetra_interface` (power board) | battery, charge state, GPIO, conveyor, sensor data, error counter | polling loop; services for outputs, LEDs, charging, conveyor | power board (serial); publishes `docking_status`, `tetra_battery`, `power_status`, `servo_on` |
| `tetra_service`, locations | one file per saved location, the last pose looked up, the global goal `_pGoal_pose` | save, go to, depart, retry | Nav2, the robot's disk |
| `virtual_wall` | global and local wall map, pending batch, flags | service add/remove, 1 s timer, map callback | costmap layers of Nav2 through two point-cloud topics |
| `kanavilidar_ros` (ROS 2 node) | kept first datagram, lengths by channel, checked model and channel | timer that reads one datagram, parser per lidar model | lidar over UDP; publishes point clouds |
| `async_web_server_cpp`, `web_video_server` | per connection: parser state, write queue; per streamer: subscription, footers, last frame | read, parse, route, reply, write; image callback, restream and cleanup timers | browsers, image topics |
| launch, description, interfaces, vendored drivers (apriltag, realsense) | - | - | inputs of the nodes above |

What is hard in it:

* `tetra` keeps driving by the last velocity it received; there is no
  watchdog, so every activity of `tetra_service` must end with a stop.
* The docking state machine spreads over mode numbers, shared counters and
  flags that services, joystick and goal results set between two ticks.
* The servo is written by four independent parties: bumper branch, error
  recovery, commands, power monitor.
* Goals are sent, retried, cancelled and postponed (departure from the
  charger) in different callbacks.
* The virtual wall service answers at once, but half of its effect is applied
  up to a second later.

* Every goal is taken from one global, long after the command that set it,
  and Nav2's aborts and the node's retries answer each other.
* Serial answers name no request, the port is never flushed, and the motor
  controller's state answer can contain the framing bytes.
* The lidar's scans come in datagrams of which most tell nothing of their
  place; the network loses and reorders them.
* Server threads and ROS callbacks write to one connection, to a client that
  may stall or leave between any two writes.

What makes each component correct:

* `virtual_wall`: no deleted wall is shown again; the timer is disarmed only
  when nothing is shown; a deleted wall vanishes from the costmap's input.
* `tetra_service`: regular docking runs end halted, with the marker last asked
  for; no phase lasts for ever by itself; goals are owed to commands and all of
  them end.
* `tetra`: the ramp reaches the request without overshoot; the bumper branch
  keeps the servo off while pressed and returns it after the release.
* `tetra_interface`: the servo is switched off when the power board is lost,
  and only then; charging state and battery are those of a real answer.
* serial line: a value read is the answer to the request that was made.
* serial drivers: what was asked for is what the board understands; a line out
  of step gets back into step; the settings a node remembers are in force.
* locations: a goal leads to the place last asked for; retries end.
* `kanavilidar_ros`: scans are mixed only when the network disturbed them, and
  one undisturbed scan later they are whole again.
* video streams: the client gets whole parts in order, memory is bounded, the
  resources of clients that have gone are released.
* `tetra` and `tetra_interface` together: a cut-off reaches the servo.

## 2. Modules

| module | what |
|---|---|
| `VirtualWall` | the `virtual_wall` node |
| `TetraService` | docking and navigation goals of `tetra_service` |
| `TetraDrive` | the `tetra` node: ramp, servo, bumper, recovery |
| `SerialLink` | request and answer on the power board's serial line (operators) |
| `TetraInterface` | the `tetra_interface` node on top of `SerialLink` |
| `Rs232` | what both serial drivers share: framing characters, bits, the LRC (operators) |
| `DriveLink` | the motor controller's line byte by byte, with the drive loop and the handlers of `tetra` as its user |
| `SerialRequests` | every request of both serial drivers and every reply of the read services, in bytes |
| `Locations` | saved locations, the global goal, retries, Nav2's preemption, a crash of the node |
| `HttpRequest` | the request parser and uri (operators) |
| `VideoStream` | one connection of the web server: parser, routing, write queue, streamers, timers |
| `KanaviLidar` | the lidar driver: from datagrams to published scans |
| `PowerWatch` | abstract: what `tetra_interface` promises about the cut-off |
| `PowerAndDrive` | `PowerWatch` and `TetraDrive` composed over the topic `servo_on` |
| `MC...` | small instances (values of the constants), one for each run's module |
| `VirtualWallProofs`, `TetraServiceProofs`, `TetraDriveProofs`, `TetraInterfaceProofs`, `LocationsProofs`, `DriveLinkProofs`, `VideoStreamProofs`, `KanaviLidarProofs` | TLAPS proofs |

Operators named `Faulty_...` are plausible bugs. No specification uses them;
each shows that a property can fail when its code is wrong.

### VirtualWall

Variables carry the names of the code (`noEmpty`, `remove`,
`polygon_global_costmap`, `polygon_local_costmap`); `pending` is
`_pVirtual_polygon.polygons/iID`, and the last message of each topic is a
variable, since a costmap layer sees nothing else. The node has a single
threaded executor, so a callback is a step. A map from id to cloud is a
function with the value `NoWall` for "no key". A polygon with fewer than four
vertices yields no points (`Combined`). The timer's early return on a missing
transform is a stutter.

### TetraService

The node spins in a multi-threaded executor, but creates no callback group:
all callbacks are in the default, mutually exclusive one, so a callback is a
step. The one thing that breaks this up is the AMCL callback that waits for a
service inside the group (`blocked`). `DockingThread_function` is the 10 ms
timer: one disjunct per mode, each with its early returns. `cmd` (the member
that handlers edit) and `published` (what `tetra` has received) are different
variables, because several branches change one and not the other. Distances,
angles and speeds are reduced to what the branches compare: a tag pose is a
record of distance ahead, straight distance, bearing class and pitch, a Twist
the sign of its linear part and whether it turns.

Left out as dead code: the obstacle flags (nothing sets them) and
`_pRobot.m_bFalg_DockingExit`. The structures that `Init` is mapped to also hold
the variables of parts not modelled (conveyor, patrol, LEDs, obstacle sensors). Three history variables exist for the
properties: `gotos`, `direct` (the mode was set from outside to something
other than a start, so that the run is not a regular one) and `cancelled`.

### TetraDrive

Callbacks run in `spin_some` before each pass, so callbacks and passes are the
steps. `MainLoop(heard, diagnosed)` is a whole pass: the ramp, the velocity
command with its answer (bumper) unless it is lost, the error query, error
recovery, and the bumper branch with its flag. `servo` and `wheel` are the last
commands the controller was sent; `by` remembers who sent the servo command.
Velocities are integers (cm/s).

### SerialLink and TetraInterface

The node has one thread: `spin_some`, then one read of the board's state. So a
service call is a step and a pass of the loop is a step. An exchange is the
whole request function (`Call`): write, then read until an answer is complete
or no byte has come for 0.2 s. `link` holds the answers that have arrived
unread and those the board has still to send; an answer is lost, comes in time,
or late, intact or with a bad LRC. Nothing flushes the port, so the first
unread answer is what the next request gets.

Answers are whole: STX and ETX are taken not to occur among the data, and a
value is known by the answer it was taken from (its kind and whether its LRC
was right). An ack read as data is taken for a length of over 12000 bytes and
swallows what follows (`Debris`). The 1000 bytes of the log samples fit only
their own request's buffer; for every other request `Overrun` is the outcome
in which the node ends, and the ordinary action the one in which it goes on.
`get_response2` has no return statement for a good answer: `Leftover` is the
set of values it may return. Compiled without optimisation it returns the LRC
(a value of 0 to 255), with optimisation whatever the register holds.

A pass makes one exchange. With the ROS parameter `m_bConveyor_option` on (it is
off in both launch files) it would make two more, after the state has been
published and without looking at what they return; these are left out. The
sonar publications are commented out in the source. The values of outputs and
LEDs are left out too; the services that set them are one action, since they
differ in the bytes they send only.

### PowerWatch and PowerAndDrive

`PowerWatch` says what the drive node may rely on: servo off is published with
every pass after more than `Patience + 1` silent ones, and never before.
`TetraInterface!KeepsWatch` is the refinement (`up` is "booting or in the
loop", `cut` is `servo_on`, `silent` the history of silent passes).
`PowerAndDrive` takes `PowerWatch` in its place, so that the serial line does
not multiply the states, together with every action of `TetraDrive`; servo off
messages wait in `inbox` until the drive node spins.

### Rs232, DriveLink and SerialRequests

`DriveLink` has the motor controller's line byte by byte, because the answer to
the velocity command is binary and of fixed length. Any byte of its position,
heading and velocities, and its LRC, can read as STX or ETX, and so does its
bumper byte when pressed. `Motions` are the 14 bytes of position and velocities
it may carry, `Switches` the emergency switch, and `Noise` is what damage makes
of a byte, the LRC or the bumper's. The LRC is computed (`Rs232!make_lrc`).
A handler is the list of requests it makes (`todo`); an exchange is one step,
since nothing else runs in the node until it has ended. The two read functions
of the driver are `get_response` (to ETX, and one byte) and `get_response2` (20
bytes). `contacts` are the bumper bytes that may be reported: `CalmDown` is the
moment from which the bumper stays as it is, the line neither loses, delays nor
damages anything, and the answers are `Unambiguous`, that is, without STX or ETX
beside their framing. What the servo and the speed do is the subject of
`TetraDrive`.

`SerialRequests` has the contents that the other modules abstract from:
numbers, digits, LRC, ports as bits, words of two bytes. A service call is one
step; the board's understanding of a request (`Heard`) is written down from the
parser that the repository itself has for this format (`str2int`, one
`Scanned` per byte). The exclusive or of the LRC is that of the bits of two
bytes, as a table (`Xor`). `Words` are what the board's answers hold, of which
each read takes the first.

A read meets its own answer, silence, or bytes that are neither (`Strays`): a
late answer to another request, a part of one, an acknowledgement. `Taken` is
what `get_response2` puts into the cleared buffer, `Passed` the early return of
all read functions on a buffer whose second byte is 2; everything else they
decode, whatever the LRC (`Reply`). Any request may also not be written, at any
time (`Ask`, `Unwritten`). In both cases the shared globals keep what another
service has read, and the service replies with that. The loop alone looks at
what the read returned (`Publishable`). The specification is `RequestSpec`, so
that one proof module can extend it together with `TetraInterface`: the node's
loop and its services. What becomes of an answer that was not taken whole is
the subject of `SerialLink` and `DriveLink`.

Two outcomes that are undefined in C are left out. A state word of 256 or more
makes `decimal2binary` write past its eight ints; the model has states of eight
inputs and outputs only, and takes the low eight bits of what a stray reads as.
The missing return value of `get_response2` after a right LRC is taken to be not
negative; `TetraInterface` has any value.

### Locations

The same node as `TetraService`, seen from its places. `TetraService` counts
goals and modes; here every goal has a place, `current` is what Nav2 works on
and `due` counts its results by code. A crash of the node can fall between
`fopen(..., "w")`, which truncates, and `fclose`, and leaves an empty file.
`Set_goal` may find no action server, or Nav2 may refuse.

### VideoStream and HttpRequest

Two kinds of threads: those of the server (reading, the request's handler,
completion of writes) and the node's callbacks, which exclude one another. A
write is a step under `write_mutex_`; `io` and `ros` hold what a handler or
callback has still to write, so that everything can interleave between two
writes. The first image of a video sends the head of the answer (`initialize`);
it may fail before that, with an error reply, or after it, when
`avformat_write_header` fails: then the error reply, with a status and headers
of its own, follows on the same connection. A topic with an illegal name leaves
the request without an answer (`StartFails`). The reply to a malformed request
is outside every `try`, so a write of it that throws ends the process
(`refuse`, `Unhandled`). A compressed image of unknown format replaces the one
that is sent again (`BadImage`). An item is named for what it carries (status, headers, part header,
payload, footer). The parser is a set of edges (state, characters, state):
`consume` takes one character, `parse` is the function that takes the rest of a
chunk in turn. What it calls "good" is compared with a grammar that says nothing
of states: `Cut` splits a text into lines at CR LF, `RequestLine`, `HeaderLine`
and `Continuation` say what a line is, by its parts before and after a
separator, `WellFormed` which lines are a request, and `Meaning` what it asks
for, with its headers in order and their continuations. Words without special
characters stand as one character; `WordsAssumption` says that no word is a
special, control or foreign character.

### KanaviLidar

The timer callback reads one datagram and does all its work, so it is a step. A
datagram keeps what is looked at (header or not, mode, PARAMETER byte, size)
and where it is from (frame and part), and the latter replaces the lengths. The
node may be started for another model than the one connected.

## 3. Runs

| run | question | states | result |
|---|---|---|---|
| `virtual_wall` | types (clouds without degenerate walls), no resurrection, disarming, deleted walls disappear | 7,882 | holds |
| `docking` | types and counter bounds, halted when done, right marker, every phase ends | 424,912 | holds |
| `navigation` | goals are paid for, navigation settles | 406,456 | holds |
| `goto_cancel` | a cancelled navigation sends no further goal, as the service's name promises | - | violated |
| `drive` | types and speed range, bumper holds the servo off, ramp, release | 20,616 | holds |
| `power` | types and counter, no early cut-off, the cut-off in the end, intact and matching answers, refinement of `PowerWatch` | 12,866 | holds |
| `power_and_drive` | a cut-off reaches the servo | 38,352 | holds |
| `drive_link` | in step unless late, settings agree, the line resynchronises | 600,328 | holds |
| `serial_requests` | requests are well framed and understood, a read that meets its answer or silence replies with that | 105,594 | holds |
| `locations` | types and retry limit, the robot goes where it was asked to, chains of retries end | 10,134 | holds |
| `video_stream` | types, whole parts, bounded queue, parser against grammar, release, service | 149,909 | holds |
| `kanavi` | types, mixed scans only after a disturbance, recovery after one scan | 1,157,769 | holds |

Deadlock is checked except where the system really stops: `drive_link` (the
node ends after a signal), `video_stream` (the connection ends) and `kanavi` (the sensor's
frames are bounded, and a node whose `bind` failed does nothing).

Bounds and why they are enough:

* `VirtualWall`: two ids and two polygons, one of them degenerate. All
  hazards need at most two requests about two walls; batches are all functions
  on these ids.
* `docking`: two marker ids (asked for and other), one pose on either side of
  the thresholds of the loop, the far one askew, counters that run to 1 instead of 8000, 10, 100
  and 200. Each counter is only compared with its limit and reset, so limit 1
  has the three cases below, at and above it. Modes asked for by a client: the
  regular start and, as an irregular one, mode 4. Goto commands are left to
  the next run.
* `navigation`: two goal-producing commands and two retries; poses on either
  side of the 50 cm and 85 cm thresholds of the goto services. The docking
  limits are 0, since `docking` covers them.
* `drive`: requests -2, 0 and 4 with ramp steps 1 and 3: speeding up takes
  several passes and braking crosses zero with both steps in one pass.
* `power`: one kind of read request besides the loop's own, the acks and the
  samples, `Patience` 2 instead of 10 (the counter is compared and reset only),
  and one unread answer (`Behind`), which is enough to put requests and
  answers out of step, and to have two of them in one read. `Leftover` is a
  byte, as in unoptimised code. (Two unread answers give 122,678 states and the
  same results.)
* `power_and_drive`: two speeds, since the servo does not depend on them, and
  a queue of two messages instead of ten: they are all alike.

* `drive_link`: two acceleration values (the one of the start and another) and
  one answer under way, which puts requests and answers out of step. All three
  bumper bytes occur, and two motions: standing still, and a wheel at 512 mm/s,
  whose high byte is STX. Damage makes STX of the bumper byte or of the LRC. (A
  third motion with an ETX gives 1,548,272 states and the same results.)
* `serial_requests`: a negative number of three digits and zero; speeds on both
  sides of the 15 bit limit and of the byte boundary; port settings all off, all
  on, single ones, and the two whose byte is STX or ETX; words on both sides of
  the byte boundary. Four strays: a late answer, the same without its end, an
  acknowledgement, whose flag is taken for a length, and bytes that are passed
  over. The theorems are about every `int`, any words and any strays.
* `locations`: one location besides HOME, two places, two gotos, two retries
  instead of 9999 (compared and counted only), one crash: a goal, the one that
  preempts it, and a retry of each.
* `video_stream`: a request for each handler and kind of streamer, and one
  request with each character left out and each kind of odd character put in
  everywhere, read in pieces of 1, 5 and all characters; two server threads
  (the default is one); one frame in the queue, as in the code.
* `kanavi`: four scans of up to four datagrams, three lost, one overtaken, one
  of another mode: a disturbed scan, the one it spoils and one that has to be
  whole, with one to spare.

Fairness:

* `VirtualWall`: weak for the timer, which the executor serves for ever and
  whose transform exists while localisation runs. Clients are not fair.
* `TetraService`: strong for the docking timer (it fires every 10 ms whenever
  the group is not blocked), strong for goal results (Nav2's action server
  answers every goal), weak for the appearance of the nomotion service, for
  which the code itself waits without limit. Sensors and clients are not fair.
* `TetraDrive`: weak for a pass whose two questions are answered: the loop
  has no end and the controller is not dead for ever. Without any answer the
  code cannot notice a released bumper.
* `TetraInterface`: weak for the loop, which waits for nothing longer than
  0.2 s. Whether the board answers is not fair.
* `PowerAndDrive`: weak for the passes that publish servo off and for the
  handling of a waiting message (`spin_some` before each pass).
* `DriveLink`: every handler's list of requests is worked off (each exchange
  ends with a time-out at the latest), weak for the steps of the loop, strong
  for the start of a pass, as `spin_some` runs only the handlers that wait when
  it begins.
* `Locations`: weak for results that have come and for Nav2's end of a goal.
* `VideoStream`: weak for what is ready to run in either kind of thread, strong
  for the failure of writes to a client that is gone and for the cleanup timer
  among the images. No client has to send its request to the end.

The violation run shows a disagreement between code and interface, listed under
`findings` in `PROJECT.json`: "Goto Cancel" during a departure does not keep
the goal from being sent.

The models contain further deviations from what comments, names or messages
say, which have no run of their own.

`virtual_wall`, docking, drive and power board:

* The pending batch of `virtual_wall` has one slot: the sequence "create two,
  delete one" of its README can leave the local map without the first wall
  (`virtual_wall.cpp:475`).
* The joystick's "Docking Stop" publishes no stop (`tetra_service.cpp:567`).
* A pressed bumper can have the servo on: recovery, commands and a press
  before the first pass leave it on, since servo off is sent once per press
  (`tetra.cpp:654`).
* A late answer can be published as battery state
  (`power_module.c:344`): `PublishedIntact` says intact, not matching.
* The "over speed exit" of docking neither publishes the cleared command nor
  leaves the loop (`TetraService!ChargingStation_tracking`).
* The "smoother" ramp of `tetra` runs on in position mode and while the servo
  is off, so that the velocity jumps afterwards (`TetraDrive!MainLoop`).
* The drive loop's error recovery undoes the power board's cut-off until the
  next message (`TetraDrive!Servo` in `PowerAndDrive`).
* A serial port that cannot be opened passes for an open one: `open_port`
  returns -1 and `create` tests for 0 (`TetraInterface!Boot`).
* Without its log directory the node ends before it cuts the servo off:
  `Error_Log_write` uses the null pointer (`TetraInterface!Error_Log_write`,
  `PowerWatch!End`).
* A failed read never reaches `power_status`, whose -10 `tetra` waits for
  (`TetraInterface!Failed`).
* The power board's parameter write goes to the conveyor board
  (`TetraInterface!Parameter_Write`).
* The missing return statement can make good answers count as failures:
  `CutOffMeansSilence` fails as soon as `Leftover` has a negative member.

Motor controller and requests:

* A line out of step may never get back as long as the state answers hold an
  STX or ETX beside their framing: a bumper byte of 2, but also any byte of
  position, heading and velocities (a wheel between 512 and 767 mm/s has 2 in
  its high byte), or an LRC. Such a byte is taken for the start of an answer, or
  for its end, in every pass, and a press that lasts is not seen.
  `Resynchronises` therefore excludes a bumper of 2 and is about a line on which
  such answers have ceased (`Unambiguous`). A late ack that is read as the error
  answer starts the recovery, which switches the servo on.
* `Parameter_Write_Command` changes the acceleration behind the value that
  `accelCallback` remembers (`tetra.cpp:250`, `strayed` in `SettingsAgree`).
* No handler looks at the result of a request, so a setting that was lost
  passes for one in force (`strayed` in `SettingsAgree`).
* `drvm_set_parameter` writes one digit too few for parameter 0, and
  `drvm_read_parameter` none (`drive_module.c:387`): `SerialRequests` asks for
  parameters from 1.
* `decimal2binary` is for words up to 255 (`power_module.c:316`); the requests
  `PO` and `PE` carry a raw byte that may be STX or ETX.
* A read service replies with `command_result` true in any case: with zeros when
  there was no answer; with another answer's words, or a part of them, when it
  met one, damaged or not; and with what another service has read before when its
  buffer was passed over (`power_module.c:454`) or its request could not be
  written. `RepliesAreAnswers` says that nothing of this happens to a read that
  meets its own answer, or silence.
* The code has requests that nothing makes: bumper, encoder, odometry, velocity
  and charge of the controller; battery, ultrasonic, load cell, conveyor sensor
  and flash of the power board.

Locations and maps:

* A location is saved in the frame `odom` (line 1132) and sent as a goal in
  `map` (line 1907).
* A location that cannot be read leads to the last goal, and the service
  replies true (1945, 1296); `set_location_cmd` replies false in any case.
* Two gotos in a row set off a chain: Nav2 aborts the first goal, the node
  answers by sending the second one again, which aborts the second one, and so
  on up to 9999 times (`ChainsEnd` counts on the limit).
* `Set_goal` is silent when the action server is not there (1898).
* `Save_Map` replies before the map is saved, `Delete_Map` replies with the
  second of two results (1743, 1770); starting one mode does not stop another.
* The EMG status 99 is never taken back, and status 1 (docking) never
  published.

Video streams:

* A snapshot with `ros_compressed` can be sent twice; a stream without images
  gets a header and then nothing, and its streamer is never found inactive, as
  only writes tell that a client is gone.
* A stalled client costs a frame each half second (`expired` in
  `QueueBounded`).
* A failed encoder, or a client that leaves while it is initialised, ends the
  node with all streams (`Terminate`); video has no queue limit. A container
  whose header cannot be written gets a second status and headers after the
  first (`libav_streamer.cpp:249`), which `PartsWhole` allows for videos only. A
  client that leaves during the reply to a malformed request ends the node too
  (`http_connection.cpp:49`).
* A topic with an illegal name gets no answer at all (`web_video_server.cpp:193`).
* `last_error_` is written without the mutex its readers hold; `has_header`
  tells the opposite of its name (`http_request.cpp:50`).

Lidar:

* Scans that mix two frames are published after a lost datagram, and clouds
  contain channels of older scans (`kanavi_lidar.cpp:202`).
* The first datagram decides the channel that completes a scan, even when it is
  no distance data (line 98): with an unsuitable one nothing is ever published,
  so `RecoversAfterOne` excludes it.
* A node whose `bind` failed spins and does nothing (`kanavi_node.cpp:36`).

## 4. Proofs

All proofs hold for every value of the constants that satisfies the named
assumptions (`WallAssumption`, `PoseAssumption`, `ServiceAssumption`,
`DriveAssumption`, `LeftoverAssumption`, `InterfaceAssumption`,
`LocationAssumption`, `PlaceAssumption`, `LinkAssumption`, `StreamAssumption`,
`KanaviAssumption`, `RequestAssumption`, `WordsAssumption`), which TLC evaluates in the runs. The strengthened
invariants of `VideoStreamProofs` (`Invariant` and `Parsed`), `KanaviLidarProofs`, `NothingLeftOver` and
`NoStaleReply` were checked by TLC on the instances of the runs before they were
proved; that of the two theorems on packets, `Sent`, ranges over the requests
for every `int` and is only proved.

| theorem | statement | argument |
|---|---|---|
| `VirtualWallProofs!TypeCorrect` | `Spec => []TypeOK` | one step per callback |
| `VirtualWallProofs!NoResurrection` | `Spec => []LocalWithinGlobal` | not inductive alone: the timer copies the pending batch later, so `PendingWithinGlobal` is added: unless the last request was a removal, the batch is still in the global map |
| `VirtualWallProofs!Disarming` | `Spec => []DisarmedOnlyWhenClear` | inductive on top of the types |
| `TetraServiceProofs!TypeCorrect` | `Spec => []TypeOK` | `TypeOK` is a conjunction of six named parts; one lemma per part for the docking loop (`LoopKeeps...`), one per group of handlers |
| `TetraServiceProofs!Halting` | `Spec => []HaltedWhenDone` | every way into modes 0, 8 and 9 publishes a stop or comes from a mode where one was published |
| `TetraServiceProofs!Approaching` | `Spec => []ApproachesRequestedMarker` | modes 3, 31 and 4 are reached only through mode 2, which latches the marker in the same tick, and a new request leaves them |
| `TetraServiceProofs!Paying` | `Spec => []GoalsPaidFor` | a departure counts as a goal to come |
| `TetraDriveProofs!TypeCorrect` | `Spec => []TypeOK` | lemmas `SmoothBetween`, `RequestableBetween` |
| `TetraDriveProofs!Smoothing` | `Spec => NoOvershoot` | `SmoothBetween`: a pass ends between its start and the request, for any two ramp steps |
| `TetraDriveProofs!BumperHolds` | `Spec => []BumperHoldsServoOff` | needs `BumperFlagAgrees`: the flag is the negation of the last reading, except before the first pass |
| `TetraInterfaceProofs!TypeCorrect` | `Spec => []TypeOK` | `ReadFacts`, `ExchangeFacts` and `CallFacts` say what a read, an exchange and a call can return; then one lemma per part of `TypeOK` |
| `TetraInterfaceProofs!OnlyIntactPublished` | `Spec => []PublishedIntact` | a read that does not fail has an intact answer (`CallFacts`), for any `Leftover` |
| `TetraInterfaceProofs!NoMixUp` | `Spec => []InStepUnlessLate` | needs `Synchronous`: until an answer is late the link is empty between exchanges |
| `TetraInterfaceProofs!NoEarlyCutOff` | `Leftover \subseteq Nat` implies `Spec => []CutOffMeansSilence` | needs `CountsSilence`: the counter is the number of silent passes, up to `Patience + 1`. The assumption is needed: a negative leftover makes good answers count as failures |
| `TetraInterfaceProofs!WatchKept` | `Leftover \subseteq Nat` implies `Spec => KeepsWatch` | the passes map to `Answered` and `Missed`, the ends of the node to `End`, everything else to a stutter; by `PassFacts` and `CountsSilence` |
| `TetraInterfaceProofs!NoStaleReply` | `RequestSpec => []RepliesAreAnswers` | `TakenWhole` and `CheckedWhole`: of an answer that arrives alone `get_response2` takes every byte and finds its LRC right, whatever the data; it is not passed over, since no answer has 512 bytes. `WordOfAnswer`: a word is put together as it was taken apart; `WordOfSilence`: the cleared buffer reads as zeros; `ReplyStep` for each of the seven read services, `StateStep` for the loop |
| `TetraInterfaceProofs!PacketsAreFramed` | `RequestSpec => []WellFramed` | needs `Sent`: the packet and what was asked belong to one request of `Orders` or `Questions`, see below; `FramedFacts` for the LRC |
| `TetraInterfaceProofs!BoardsUnderstand` | `RequestSpec => []Understood` | from `Sent`, one lemma for each form of request (`ListUnderstood`, `SwitchUnderstood`, ... `VelocityUnderstood`) |
| `LocationsProofs!TypeCorrect` | `Spec => []TypeOK` | part of the invariant below; `CountFacts` for the results on their way |
| `LocationsProofs!RightPlace` | `Spec => []GoesWhereAsked` | needs `GoalIsWanted`: the global goal is the place of the last goto, so whatever is sent later leads there; `SetGoalFacts`, `GotoFacts` and `RetryFacts` say what sending, a goto and a retry do |
| `DriveLinkProofs!SettingsKept` | `Spec => []SettingsAgree` | needs `Agrees`: every setting still to be asked for is the one the node remembers, and the controller has those that are not asked for any more (`ExchangeFacts`, `HandlerKeeps`); what the reads return does not matter |
| `DriveLinkProofs!NothingLeftOver` | `Spec => []InStepUnlessLate` | needs `Quiet`: until an answer is late nothing is under way either, so an exchange reads one answer or none. `AnswerShapes`: an answer to the velocity command has 20 bytes, any other has no ETX before its end, damaged or not; `ReadsAll`: the read for it consumes exactly that |
| `VideoStreamProofs!TypeCorrect` | `Spec => []TypeOK` | part of the invariant below: that an image is sent again (`restream_frame`) only by a streamer needs `Unsubscribed` and `CallbackGoesOn` |
| `VideoStreamProofs!PartsInOrder` | `Spec => []PartsWhole` | `Invariant`, see below |
| `VideoStreamProofs!MemoryBounded` | `Spec => []QueueBounded` | needs `Counted`: the queue's count, of the footer in `ros` too, stays within the length, and what is alive is counted or has expired; `FootersFacts` for the cardinalities |
| `VideoStreamProofs!RequestsRead` | `Spec => []ParsedAsWritten` | needs `Parsed`: however the reads have cut the text up, the parser is where reading it at once leaves it (`ParseConcat`). That this is what the grammar says, for every text, is `WellFormedRead` and `Sound`, see below |
| `KanaviLidarProofs!TypeCorrect` | `Spec => []TypeOK` | one step per action; `ParseTypes` and `ProcessTypes` for the flag and the kept datagram |
| `KanaviLidarProofs!NeverMixed` | `Spec => []MixedOnlyIfDisturbed` | `IInv`, see below; `WholePublished` is the property for what the node has read |
| `KanaviLidarProofs!Recovers` | `Spec => []RecoversAfterOne` | from the same `IInv`: an undisturbed scan whose last datagram has been read was published (`ReadIsPublished`) |

`VideoStreamProofs!Invariant`. What the client gets is `received`, `writing` and
`pending` in a row (`Sent`). `PartsWhole` is not inductive, since the next write
may come from a handler or a callback that is half done: `HandlerGoesOn` and
`CallbackGoesOn` say that what they have still to write goes on from the last
thing sent (`Latest`), `Ready` that between two callbacks the connection is
where the next image can begin, and `Fresh` and `Unsubscribed` that neither has
begun before its time. A write appends to `pending` or begins a buffer (`Added`,
`Begun`); a completed write moves the row (`Shifted`), so the order stays.

`KanaviLidarProofs!IInv` is `TypeOK /\ Network /\ Node`. `Network` says that
what is in the socket was sent, that the datagrams of an undisturbed frame are
in the order they were sent with nothing in between, and that what has been
read is a beginning of that. `Node` says how the node keeps up with it: the
lengths it has put together are those of the frames named (`LengthsOf`,
`LengthsNewest`), the datagram kept is the first of a scan (`KeptFirst`), and
the scan in progress is the one whose rest is next (`RestIsAwaited`). The three
actions of the network and `SendOther` keep `Node` for one reason
(`NetworkKeepsNode`).

`TetraInterfaceProofs!Sent`. A packet alone does not tell what was asked for, so
neither `WellFramed` nor `Understood` is inductive. `Sent` says that packet and
question are of one request: of `Orders`, a superset of what the services and
the drive node send (numbers of any `int`, lists of any length, parameters 1 to
99), or of `Questions`, which carry nothing. That it is kept is a walk through
the actions (`RequestSteps`); what it implies is a fact about data. A number is
written with its digits and no more (`Significance`, `WrittenForm`), and nothing
written is STX or ETX (`JoinedBytes`). Reading goes on where it was
(`AfterConcat`), the digits of a number are read as that number (`NumeralScan`),
and so is a list (`JoinedScan`, `PacketScan`). Packed speeds come back clamped
(`Sign`), outputs come back from their byte (`OutputsUnderstood`).

The recursive functions in these facts (`make_lrc`, `Joined`, `str2int`) go over
data of any length. The library's induction theorems take an operator, so the
module has its own, for sets: `Least`, a set of naturals has a smallest element,
from the well-foundedness of `<`; `Induction`, a set with 0 and all successors
has all numbers up to n; `Recursion` and `Agreement`, a function defined step by
step exists and is the only one. `LrcOf`, `JoinedOf` and `AfterOf` use them to
give each recursive function its two equations.

`VideoStreamProofs!RequestsRead`. `Parsed` is kept because reading goes on where
it was; everything else is about texts. `ParseFacts`, `CutFacts` and
`HeadersFacts` give the three recursive functions their equations for one
element more, and `Growing` is the induction for them, again over sets: a set of
sequences with the empty one and every one by an element longer has all.

* A request is read as one (`WellFormedRead`). The parts of a line lead the
  parser from one state to the next (`MethodRead`, `UriRead`, `ProtocolRead`,
  `NameRead`, `ValueRead`, `BlanksRead`), so a whole line does (`LineLeads`), and
  so do the first lines of a request (`LegalRead`), with the headers that
  `Headers` gives them.
* Only a request is read as one (`Sound`). `Stage` says what each state of the
  parser tells of the lines so far and of what has come after the last of them,
  and `StageStep` that one character keeps it: to the next state, to the end of
  a line (`RequestEnd`, `HeaderEnd`, `ContinuationEnd`), to "good" or to "bad".
* The first to be complete is the one that is read (`ReadOnce`): after "good"
  nothing is consumed, and from "bad" no way leads back (`BadStays`).

Only model-checked: the liveness properties (`DeletedWallDisappears`,
`DockingPhasesEnd`, `NavigationSettles`, `SpeedReached`,
`ReleaseRestoresServo`, `DisconnectCutsServo`, `CutOffArrives`,
`Resynchronises`, `ChainsEnd`, `GoneClientsReleased`, `Served`), since fairness
and ENABLED are beyond the prover. Every safety invariant and every action
property of the runs, and the refinement of `PowerWatch`, are theorems.

## 5. Not modelled, and the plan

The core is modelled, and its safety is proved. What would come next, in this
order:

1. `DriveChain`: `TetraService` over the best-effort topic `cmd_vel_manual` to
   `TetraDrive`, with restarts of `tetra_service` (`respawn=True`).
2. `WallRegistry`, an abstract service specification of `virtual_wall`, and a
   refinement theorem.

Not modelled, and why:

* `led_control_node` passes battery, EMG and navigation state on to LED
  services, one after the other, and keeps no state but the last values.
* Maps and modes of `tetra_service` start and kill other programs through the
  shell; LED values and dynamic parameters are passed on unchanged.
* `tetra`: odometry and wheel speeds (floating point, published unchanged).
* Websockets, request bodies and replies from files of `async_web_server_cpp`,
  which the video server does not use; encodings of images and videos.
* `kanavilidar_ros`: geometry, colours, command line; its ROS 1 node, which is
  not built.
* `apriltag_ros2` and `realsense-ros` are vendored, and appear as inputs.
* Launch files, robot description, interface definitions and map files have no
  behaviour of their own.
